---- MODULE Spec2Model ----
(***************************************************************************)
(* Streaming tool-orchestration engine of ocr_rag/backend/main.py:         *)
(* generate_streaming_response_with_tools (the orchestration loop and the  *)
(* reasoning/answer splitter) and execute_tool_calls (the tool dispatcher  *)
(* with the automatic review of search-like tool output).                  *)
(*                                                                         *)
(* One behaviour is one request: the event stream is the sequence `events`,*)
(* the model's context is `messages`.  The model invocation service, the   *)
(* tools and the conversation store are the environment: each of their     *)
(* calls returns one of its possible results or raises.                    *)
(***************************************************************************)
EXTENDS Integers, Sequences, FiniteSets, TLC

(***************************************************************************)
(* Bounds of the model.                                                    *)
(***************************************************************************)
\* largest iteration ceiling (max_iterations) a request is started with
MaxIterations == 2
\* largest number of tool calls the model requests over one request
MaxToolCalls == 2
\* largest number of incremental units of the final streaming call
MaxUnits == 3
\* largest number of entries of a search result given to review_search_results
MaxEntries == 3
\* largest number of entries of a long search result (more than are rendered)
MaxManyEntries == 11
\* largest number of pieces of a snippet given to _compute_recency_score
MaxPieces == 2
\* largest number of web_search and search_recent_news calls of a process
MaxSearches == 2
\* largest number of results the search engine finds for a query
MaxFound == 6
\* largest number of append_message calls on the conversation store
MaxAppends == 3

(***************************************************************************)
(* Program constants.                                                      *)
(***************************************************************************)
\* tm.content[:200] in the tool_results event
EventContentLimit == 200
\* len("...") appended to a truncated content
EllipsisLen == 3
\* max_results of web_search and get_search_tool when none is passed
DefaultMaxResults == 5
\* threshold = 0.4 of review_search_results, in thousandths
Threshold == 400
\* top-N of review_search_results when nothing reaches the threshold
TopN == 2
\* recommendations[:10] and "until 10" of the re-rendering
MaxRendered == 10

(***************************************************************************)
(* Input domains.                                                          *)
(***************************************************************************)
\* model identifiers of the requests explored ("None", Python's None, selects
\* the default model and is handled like "deepseek-chat")
ModelNames == {"deepseek-chat", "deepseek-reasoner", "qwen3-vl-8b-instruct"}
\* iteration ceilings of the requests explored: none at all, and the largest
Ceilings == {0, MaxIterations}
NoSession == "none"
SessionIds == {NoSession, "s1"}
\* WEB_SEARCH_TOOLS + REVIEW_TOOLS
Registry ==
    {"web_search", "search_recent_news", "get_current_time", "review_search_results"}
\* the names the model asks for
RequestedNames == {"web_search", "get_current_time", "unknown_tool"}
\* final scores (thousandths) of the entries of the search result of the
\* requests explored: scenario B of the specification
ScenarioScores == <<600, 200, 450>>
\* session ids of the conversation store (str(uuid.uuid4()))
SessionKeys == {"s1", "s2"}
\* the callers of append_message that may run at the same time
Writers == {"w1", "w2"}
\* role of a stored message
Roles == {"user", "assistant"}
\* title given to create_conversation: one of the default titles or another
CreateTitles == {"default", "custom"}
\* the years written in the texts, as their four digits
Years == {"2025", "2023"}
\* what a title or snippet is made of: a date in either form, a year, a
\* relative-recency marker, another word ("nian", "yue", "ri" are the
\* characters 年, 月, 日 and "zuijin" is the word 最近)
DashDate(y) == <<y, "-", "11", "-", "22">>
CjkDate(y) == <<y, "nian", "11", "yue", "22", "ri">>
YearMention(y) == <<y, "nian">>
Marker == <<"zuijin">>
Word == <<"w">>
Pieces ==
    {DashDate(y) : y \in Years} \cup {CjkDate(y) : y \in Years}
    \cup {YearMention(y) : y \in Years} \cup {Marker, Word}
\* the pieces written one after the other with a blank between them
RECURSIVE Joined(_)
Joined(pieces) ==
    IF pieces = <<>> THEN <<>>
    ELSE IF Len(pieces) = 1 THEN pieces[1]
    ELSE pieces[1] \o <<" ">> \o Joined(Tail(pieces))
\* titles of at most one piece, snippets of at most MaxPieces pieces
Titles == {Joined(ps) : ps \in UNION {[1..n -> Pieces] : n \in 0..1}}
Snippets == {Joined(ps) : ps \in UNION {[1..n -> Pieces] : n \in 0..MaxPieces}}
\* current_date as the caller passes it: '' or a date in one of the two forms
ReferenceDates ==
    {<<>>} \cup {DashDate(y) : y \in Years} \cup {CjkDate(y) : y \in Years}
\* max_results as the model or a test passes it to web_search
RequestedMaxResults == {2, DefaultMaxResults, 7}
\* what review_tool.ainvoke does
ReviewOutcomes == {"ok", "raises", "error_object", "unparsable", "bad_entries"}
\* pdf_chunks of the requests explored: none, or one document chunk
NoChunks == <<>>
ChunkLists == {NoChunks, <<"chunk1">>}
\* final scores (thousandths) of the entries given to review_search_results:
\* two below the threshold, one at it, one above it
ScoreValues == {100, 300, 400, 600}
\* the final scores of the entries of a parsed result, in result order
ScoreLists == UNION {[1..n -> ScoreValues] : n \in 0..MaxEntries}
\* final scores of the entries of a long result: below or above the threshold
ManyScoreValues == {300, 600}
\* the final scores of a long result, and those of the three-entry scenario
ManyScoreLists ==
    UNION {[1..n -> ManyScoreValues] : n \in 0..MaxManyEntries} \cup {ScenarioScores}

VARIABLES
    model_name,          \* argument model_name
    enable_tools,        \* argument enable_tools
    max_iterations,      \* argument max_iterations
    session_id,          \* argument session_id (NoSession: None)
    pc,                  \* position of the generator
    tools_bound,         \* whether get_chat_model_with_tools bound the tools
    messages,            \* the message list (mutated in place)
    iteration,           \* local iteration
    response_calls,      \* response.tool_calls of the current round
    call_index,          \* position of execute_tool_calls' for loop (1-based)
    tool_messages,       \* tool_messages of execute_tool_calls
    events,              \* the events yielded so far
    thought_process_started,
    thought_process_ended,
    answer_started,
    full_response,       \* accumulated answer payloads
    chunk_count,         \* units consumed from model.astream
    store,               \* messages appended to the session's record
    model_failed,        \* history: a model invocation has raised
    stream_calls,        \* history: number of model.astream calls
    dispatched,          \* history: number of tool_func.ainvoke calls
    responses,           \* history: how each model.ainvoke call ended
    call_log,            \* history: how each tool call of execute_tool_calls ended
    pdf_chunks,          \* argument pdf_chunks (NoChunks: None or empty)
    recording,           \* history: whether unit_log is kept
    unit_log,            \* history: the units model.astream delivered
    streamed_requests,   \* history: number of streamed units that requested tools
                         \* (NotCounted: no count is kept)
    rv_pc,               \* review_search_results: position
    rv_scores,           \* review_search_results: final_score of each parsed entry
    rv_recommended,      \* review_search_results: recommended
    rv_final,            \* execute_tool_calls: final_entries of the re-rendering
    persist_log,         \* history: how append_message of the assistant message ended
    cs_files,            \* conversation store: the record file of each session id
    cs_created,          \* conversation store: the session ids handed out so far
    cs_writers,          \* conversation store: the append_message call of each writer
    cs_thread,           \* conversation store: the title thread of each session id
    cs_acked,            \* history: messages whose append_message returned True
    cs_overlap,          \* history: a call began while an append_message was running
    cs_got,              \* history: what the last get_conversation returned
    cs_next,             \* history: number of append_message calls begun
    cs_returned,         \* history: what the append_message or delete_conversation
                         \* call of the step just taken returned
    sc_pc,               \* _compute_recency_score: position
    sc_current_date,     \* _compute_recency_score: argument current_date
    sc_title,            \* _compute_recency_score: argument title
    sc_snippet,          \* _compute_recency_score: argument snippet
    sc_score,            \* _compute_recency_score: the score returned, in thousandths
    ws_instance,         \* web_search_tool: _search_tool_instance
    ws_log               \* history: the web_search and search_recent_news calls

vars == <<model_name, enable_tools, max_iterations, session_id, pc, tools_bound,
          messages, iteration, response_calls, call_index, tool_messages, events,
          thought_process_started, thought_process_ended, answer_started,
          full_response, chunk_count, store, model_failed, stream_calls,
          dispatched, responses, call_log, pdf_chunks, recording, unit_log,
          streamed_requests,
          rv_pc, rv_scores, rv_recommended, rv_final, persist_log,
          cs_files, cs_created, cs_writers, cs_thread, cs_acked, cs_overlap,
          cs_got, cs_next, cs_returned, sc_pc, sc_current_date, sc_title,
          sc_snippet, sc_score, ws_instance, ws_log>>

request == <<model_name, enable_tools, max_iterations, session_id, pdf_chunks,
             recording>>
splitter == <<thought_process_started, thought_process_ended, answer_started,
              full_response, chunk_count, unit_log, streamed_requests>>
round == <<response_calls, call_index, tool_messages>>
\* the state of a review_search_results call checked on its own
rv == <<rv_pc, rv_scores, rv_recommended, rv_final>>
\* the state of the conversation store
cs == <<cs_files, cs_created, cs_writers, cs_thread, cs_acked, cs_overlap,
        cs_got, cs_next, cs_returned>>
\* the state of a _compute_recency_score call checked on its own
sc == <<sc_pc, sc_current_date, sc_title, sc_snippet, sc_score>>
\* the state of the web search tool module
ws == <<ws_instance, ws_log>>
\* the state of a request
request_state == <<request, pc, tools_bound, messages, iteration, round, events,
                   splitter, store, model_failed, stream_calls, dispatched,
                   responses, call_log, persist_log>>

(***************************************************************************)
(* Values.                                                                 *)
(***************************************************************************)
\* a text: what it is (kind), what it carries (body), its length, whether it
\* was cut for an event, and whether the review's output is attached to it
Text(kind, body, len) ==
    [kind |-> kind, body |-> body, len |-> len, cut |-> FALSE,
     review_section |-> FALSE]
EmptyText == Text("empty", <<>>, 0)
\* format_results of the search result with ScenarioScores
RawSearchResult == Text("raw_search", ScenarioScores, 300)
\* the text get_current_time returns
RawTimeResult == Text("raw_time", <<>>, 130)
\* f"工具执行失败: {str(e)}"
FailureText == Text("tool_failed", <<>>, 30)

Msg(role, calls, id, name, content) ==
    [role |-> role, tool_calls |-> calls, tool_call_id |-> id, name |-> name,
     content |-> content]
SystemMessage == Msg("system", <<>>, <<>>, "", EmptyText)
HumanMessage == Msg("user", <<>>, <<>>, "", EmptyText)
AIMessage(calls) == Msg("assistant", calls, <<>>, "", EmptyText)
ToolMessage(content, id, name) == Msg("tool", <<>>, id, name, content)

\* convert_history_to_messages + create_multimodal_message with an empty history
InitialMessages == <<SystemMessage, HumanMessage>>

\* an event of the stream; only message_complete carries references
Event(type, data, stamped) ==
    [type |-> type, data |-> data, timestamp |-> stamped, references |-> <<>>]


(***************************************************************************)
(* Review Filter: the recommendation of review_search_results and the      *)
(* re-rendering of execute_tool_calls.  An entry is its 1-based index in   *)
(* the raw result; scores[i] is its final_score in thousandths.            *)
(***************************************************************************)
Min(a, b) == IF a <= b THEN a ELSE b

RECURSIVE SortDesc(_, _)
\* sorted(results, key=final_score, reverse=True): stable, best first
SortDesc(scores, remaining) ==
    IF remaining = {} THEN <<>>
    ELSE LET best == CHOOSE i \in remaining :
                        \A j \in remaining :
                            \/ scores[i] > scores[j]
                            \/ scores[i] = scores[j] /\ i <= j
         IN  <<best>> \o SortDesc(scores, remaining \ {best})

SortedByScore(scores) == SortDesc(scores, DOMAIN scores)

RECURSIVE IndicesFrom(_, _, _)
\* [r['index'] for r in results if r['final_score'] >= threshold]
IndicesFrom(scores, i, threshold) ==
    IF i > Len(scores) THEN <<>>
    ELSE (IF scores[i] >= threshold THEN <<i>> ELSE <<>>)
         \o IndicesFrom(scores, i + 1, threshold)

\* variant: an entry is recommended only if its score is above the threshold
Recommended_Strict(scores) ==
    LET above == IndicesFrom(scores, 1, Threshold + 1)
        sorted == SortedByScore(scores)
    IN  IF above # <<>> THEN above
        ELSE SubSeq(sorted, 1, Min(TopN, Len(sorted)))

\* recommended: the entries at or above the threshold, else the top two
Recommended(scores) ==
    LET above == IndicesFrom(scores, 1, Threshold)
        sorted == SortedByScore(scores)
    IN  IF above # <<>> THEN above
        ELSE SubSeq(sorted, 1, Min(TopN, Len(sorted)))

Range(seq) == {seq[i] : i \in DOMAIN seq}

RECURSIVE PadWith(_, _)
\* append the entries of `candidates`, in order, that are not yet in `final`,
\* until `final` has MaxRendered entries
PadWith(final, candidates) ==
    IF candidates = <<>> \/ Len(final) >= MaxRendered THEN final
    ELSE IF candidates[1] \in Range(final)
         THEN PadWith(final, Tail(candidates))
         ELSE PadWith(Append(final, candidates[1]), Tail(candidates))

\* variant: the padding does not look at the entries already included
FinalEntries_PadsAll(recommendations, scores) ==
    LET firstTen == SubSeq(recommendations, 1, Min(MaxRendered, Len(recommendations)))
        known == SelectSeq(firstTen, LAMBDA idx : idx \in DOMAIN scores)
        all == known \o SortedByScore(scores)
    IN  SubSeq(all, 1, Min(MaxRendered, Len(all)))

\* final_entries: recommendations[:10], then the best entries not yet included
FinalEntries(recommendations, scores) ==
    LET firstTen == SubSeq(recommendations, 1, Min(MaxRendered, Len(recommendations)))
        known == SelectSeq(firstTen, LAMBDA idx : idx \in DOMAIN scores)
    IN  PadWith(known, SortedByScore(scores))

\* new_result_text built from final_entries
FilteredText(final) == Text("filtered", final, 20 + 120 * Len(final))

\* result when the review returned its JSON: the filtered rendering if there
\* are recommendations and entries, else the raw result
Rendered(raw) ==
    LET recommendations == Recommended(raw.body)
        final == FinalEntries(recommendations, raw.body)
    IN  IF recommendations # <<>> /\ raw.body # <<>> /\ final # <<>>
        THEN FilteredText(final)
        ELSE raw

\* variant: a failure of the review is handled as a failure of the tool
ReviewedResult_NoFallback(raw, outcome) ==
    IF outcome = "ok" THEN Rendered(raw)
    ELSE FailureText

\* result after the review block of execute_tool_calls, for a search-like tool
\* whose raw result is `raw` and whose review call ended as `outcome`:
\* "raises" is caught by the outer except of the block, "unparsable" (json.loads
\* raises) and "bad_entries" (the rendering raises) by the inner one, and an
\* "error_object" has neither recommendations nor entries
ReviewedResult(raw, outcome) ==
    IF outcome = "ok" THEN Rendered(raw)
    ELSE raw

\* the characters of the tool names that occur
Spelling(name) ==
    CASE name = "web_search" -> <<"w","e","b","_","s","e","a","r","c","h">>
      [] name = "search_recent_news" ->
            <<"s","e","a","r","c","h","_","r","e","c","e","n","t","_","n","e","w","s">>
      [] name = "get_current_time" ->
            <<"g","e","t","_","c","u","r","r","e","n","t","_","t","i","m","e">>
      [] name = "review_search_results" ->
            <<"r","e","v","i","e","w","_","s","e","a","r","c","h","_",
              "r","e","s","u","l","t","s">>
      [] name = "unknown_tool" -> <<"u","n","k","n","o","w","n","_","t","o","o","l">>
      [] OTHER -> <<>>

UpperCase == <<"A","B","C","D","E","F","G","H","I","J","K","L","M",
               "N","O","P","Q","R","S","T","U","V","W","X","Y","Z">>
LowerCase == <<"a","b","c","d","e","f","g","h","i","j","k","l","m",
               "n","o","p","q","r","s","t","u","v","w","x","y","z">>

\* str.lower()
Lower(chars) ==
    [i \in DOMAIN chars |->
        IF \E k \in DOMAIN UpperCase : UpperCase[k] = chars[i]
        THEN LowerCase[CHOOSE k \in DOMAIN UpperCase : UpperCase[k] = chars[i]]
        ELSE chars[i]]

\* k in lower_name
Contains(chars, k) ==
    \E i \in 0..(Len(chars) - Len(k)) : SubSeq(chars, i + 1, i + Len(k)) = k

\* ["search", "web", "news"]
SearchKeywords == {<<"s","e","a","r","c","h">>, <<"w","e","b">>, <<"n","e","w","s">>}

\* variant: every tool's result goes through the review
SearchLike_All(name) == TRUE

\* any(k in lower_name for k in ["search", "web", "news"])
SearchLike(name) == \E k \in SearchKeywords : Contains(Lower(Spelling(name)), k)

\* what tool_func.ainvoke returns when it returns
RawResult(name) == IF name = "get_current_time" THEN RawTimeResult ELSE RawSearchResult

\* variant: the event carries the content as it is
EventContent_KeepsAll(content) == content
\* tm.content[:200] + "..." if len(tm.content) > 200 else tm.content
EventContent(content) ==
    IF content.len > EventContentLimit
    THEN [content EXCEPT !.len = EventContentLimit + EllipsisLen, !.cut = TRUE]
    ELSE content

(***************************************************************************)
(* Initial state: a request about to be served.                            *)
(***************************************************************************)
\* no review_search_results call is looked at on its own
ReviewIdle ==
    /\ rv_pc = "idle"
    /\ rv_scores = <<>>
    /\ rv_recommended = <<>>
    /\ rv_final = <<>>

\* a record file of the conversation store, and the absence of one
Record(title, msgs) == [exists |-> TRUE, title |-> title, messages |-> msgs]
NoRecord == [exists |-> FALSE, title |-> "", messages |-> <<>>]
\* the message of the n-th append_message call
StoredMessage(role, n) == [role |-> role, n |-> n]
NoMessage == StoredMessage("", 0)
\* a writer that is not inside append_message; a title thread not started
IdleWriter == [pc |-> "idle", sid |-> "", msg |-> NoMessage, obj |-> NoRecord]
NoThread == [pc |-> "none", obj |-> NoRecord]
NothingGot == [sid |-> "", rec |-> NoRecord, acked |-> <<>>]
\* what a call on a session id returned; no such call was the last step
CallReturned(call, sid, value) == [call |-> call, sid |-> sid, value |-> value]
NothingReturned == CallReturned("", "", FALSE)

\* an empty data directory, nobody calling the store
StoreIdle ==
    /\ cs_files = [s \in SessionKeys |-> NoRecord]
    /\ cs_created = {}
    /\ cs_writers = [w \in Writers |-> IdleWriter]
    /\ cs_thread = [s \in SessionKeys |-> NoThread]
    /\ cs_acked = [s \in SessionKeys |-> <<>>]
    /\ cs_overlap = FALSE
    /\ cs_got = NothingGot
    /\ cs_next = 0
    /\ cs_returned = NothingReturned

\* no _compute_recency_score call is looked at on its own
ScorerIdle ==
    /\ sc_pc = "idle"
    /\ sc_current_date = <<>>
    /\ sc_title = <<>>
    /\ sc_snippet = <<>>
    /\ sc_score = 0

\* _search_tool_instance: a WebSearchTool with its max_results, or None
Instance(max_results) == [exists |-> TRUE, max_results |-> max_results]
NoInstance == [exists |-> FALSE, max_results |-> 0]

\* the web search tool module as imported: no instance, no call made
SearchIdle ==
    /\ ws_instance = NoInstance
    /\ ws_log = <<>>

\* streamed_requests when the streamed units that request tools are not counted
NotCounted == -1

\* a request about to be served
RequestStart ==
    /\ model_name \in ModelNames
    /\ enable_tools \in BOOLEAN
    /\ max_iterations \in Ceilings
    /\ session_id \in SessionIds
    /\ pc = "start"
    /\ tools_bound = FALSE
    /\ messages = InitialMessages
    /\ iteration = 0
    /\ response_calls = <<>>
    /\ call_index = 1
    /\ tool_messages = <<>>
    /\ events = <<>>
    /\ thought_process_started = FALSE
    /\ thought_process_ended = FALSE
    /\ answer_started = FALSE
    /\ full_response = <<>>
    /\ chunk_count = 0
    /\ store = <<>>
    /\ model_failed = FALSE
    /\ stream_calls = 0
    /\ dispatched = 0
    /\ responses = <<>>
    /\ call_log = <<>>
    /\ unit_log = <<>>
    /\ persist_log = "none"

\* requests without document chunks
Init ==
    /\ RequestStart
    /\ pdf_chunks = NoChunks
    /\ recording = FALSE
    /\ streamed_requests = NotCounted
    /\ ReviewIdle
    /\ StoreIdle
    /\ ScorerIdle
    /\ SearchIdle

\* the except clause of generate_streaming_response_with_tools
ErrorEvent == Event("error", <<>>, TRUE)

Emit(evs) == events' = events \o evs

(***************************************************************************)
(* get_chat_model_with_tools and the session_init event.                   *)
(***************************************************************************)
\* tools are bound only for deepseek-chat / None with enable_tools, and only
\* if bind_tools does not raise
CanBind == enable_tools /\ model_name \in {"deepseek-chat", "None"}

\* messages[0].content += pdf_content, if there are chunks and the first
\* message is the system message
WithDocuments(msgs, chunks) ==
    IF chunks # NoChunks /\ msgs # <<>> /\ msgs[1].role = "system"
    THEN [msgs EXCEPT ![1].content = Text("system_with_documents", <<>>, 500)]
    ELSE msgs

\* variant: session_init is yielded whether or not a session id was supplied
Start_AlwaysAnnounces ==
    /\ pc = "start"
    /\ messages' = WithDocuments(messages, pdf_chunks)
    /\ \E bound \in {CanBind, FALSE} : tools_bound' = bound
    /\ Emit(<<Event("session_init", <<session_id>>, FALSE)>>)
    /\ pc' = "loop"
    /\ UNCHANGED <<request, rv, cs, sc, ws, persist_log, iteration, round, splitter, store,
                   model_failed, stream_calls, dispatched, responses, call_log>>

\* the model is built (tools bound if allowed), then session_init is yielded if
\* a session id was supplied
Start ==
    /\ pc = "start"
    /\ messages' = WithDocuments(messages, pdf_chunks)
    /\ \E bound \in {CanBind, FALSE} : tools_bound' = bound
    /\ Emit(IF session_id # NoSession
            THEN <<Event("session_init", <<session_id>>, FALSE)>>
            ELSE <<>>)
    /\ pc' = "loop"
    /\ UNCHANGED <<request, rv, cs, sc, ws, persist_log, iteration, round, splitter, store,
                   model_failed, stream_calls, dispatched, responses, call_log>>

\* get_chat_model raises (HTTPException) before anything was yielded
StartFails ==
    /\ pc = "start"
    /\ messages' = WithDocuments(messages, pdf_chunks)
    /\ Emit(<<ErrorEvent>>)
    /\ pc' = "done"
    /\ UNCHANGED <<request, rv, cs, sc, ws, persist_log, tools_bound, iteration, round, splitter,
                   store, model_failed, stream_calls, dispatched, responses,
                   call_log>>

(***************************************************************************)
(* The tool-calling loop.                                                  *)
(***************************************************************************)
\* variant: the ceiling is compared off by one
LoopGuard_OffByOne(i, max) == i <= max

\* while iteration < max_iterations
LoopGuard(i, max) == i < max

InLoop == pc = "loop" /\ LoopGuard(iteration, max_iterations)

\* tool calls requested so far in this request
RECURSIVE Requested(_)
Requested(msgs) ==
    IF msgs = <<>> THEN 0 ELSE Len(msgs[1].tool_calls) + Requested(Tail(msgs))

\* the tool calls a response may carry: ids are unique within the response
CallLists(budget, rnd) ==
    UNION {{[i \in 1..n |-> [name |-> names[i], id |-> <<rnd, i>>]] :
                names \in [1..n -> RequestedNames]} : n \in 1..budget}

\* variant: the failure is reported but the loop is left as after a break
InvokeFails_Continues ==
    /\ InLoop
    /\ iteration' = iteration + 1
    /\ responses' = Append(responses, "failed")
    /\ model_failed' = TRUE
    /\ Emit(<<ErrorEvent>>)
    /\ pc' = "final"
    /\ UNCHANGED <<request, rv, cs, sc, ws, persist_log, tools_bound, messages, round, splitter, store,
                   stream_calls, dispatched, call_log>>

\* model.ainvoke raises
InvokeFails ==
    /\ InLoop
    /\ iteration' = iteration + 1
    /\ responses' = Append(responses, "failed")
    /\ model_failed' = TRUE
    /\ Emit(<<ErrorEvent>>)
    /\ pc' = "done"
    /\ UNCHANGED <<request, rv, cs, sc, ws, persist_log, tools_bound, messages, round, splitter, store,
                   stream_calls, dispatched, call_log>>

\* variant: a tool-free response does not leave the loop
InvokeNoTools_NoBreak ==
    /\ InLoop
    /\ iteration' = iteration + 1
    /\ responses' = Append(responses, "tool_free")
    /\ pc' = "loop"
    /\ UNCHANGED <<request, rv, cs, sc, ws, persist_log, tools_bound, messages, round, splitter, store,
                   events, model_failed, stream_calls, dispatched, call_log>>

\* variant: the response without tool calls is appended to the message list
InvokeNoTools_Appends ==
    /\ InLoop
    /\ iteration' = iteration + 1
    /\ responses' = Append(responses, "tool_free")
    /\ messages' = Append(messages, AIMessage(<<>>))
    /\ pc' = "final"
    /\ UNCHANGED <<request, rv, cs, sc, ws, persist_log, tools_bound, round, splitter, store,
                   events, model_failed, stream_calls, dispatched, call_log>>
\* model.ainvoke returns a response without tool calls: break
InvokeNoTools ==
    /\ InLoop
    /\ iteration' = iteration + 1
    /\ responses' = Append(responses, "tool_free")
    /\ pc' = "final"
    /\ UNCHANGED <<request, rv, cs, sc, ws, persist_log, tools_bound, messages, round, splitter, store,
                   events, model_failed, stream_calls, dispatched, call_log>>

\* variant: the response with tool calls is not appended to the message list
InvokeTools_NoAppend ==
    /\ InLoop
    /\ tools_bound
    /\ \E calls \in CallLists(MaxToolCalls - Requested(messages), iteration + 1) :
        /\ response_calls' = calls
        /\ Emit(<<Event("tool_calls", [i \in DOMAIN calls |-> calls[i].name], TRUE)>>)
    /\ iteration' = iteration + 1
    /\ call_index' = 1
    /\ tool_messages' = <<>>
    /\ responses' = Append(responses, "tools")
    /\ pc' = "dispatch"
    /\ UNCHANGED <<request, rv, cs, sc, ws, persist_log, tools_bound, messages, splitter, store, model_failed,
                   stream_calls, dispatched, call_log>>
\* model.ainvoke returns a response with tool calls (only a model the tools
\* were bound to answers with tool calls): tool_calls event, the assistant
\* message is appended, execute_tool_calls starts
InvokeTools ==
    /\ InLoop
    /\ tools_bound
    /\ \E calls \in CallLists(MaxToolCalls - Requested(messages), iteration + 1) :
        /\ response_calls' = calls
        /\ Emit(<<Event("tool_calls", [i \in DOMAIN calls |-> calls[i].name], TRUE)>>)
        /\ messages' = Append(messages, AIMessage(calls))
    /\ iteration' = iteration + 1
    /\ call_index' = 1
    /\ tool_messages' = <<>>
    /\ responses' = Append(responses, "tools")
    /\ pc' = "dispatch"
    /\ UNCHANGED <<request, rv, cs, sc, ws, persist_log, tools_bound, splitter, store, model_failed,
                   stream_calls, dispatched, call_log>>

(***************************************************************************)
(* execute_tool_calls: one step per tool call, in the order received.      *)
(***************************************************************************)
Dispatching == pc = "dispatch" /\ call_index <= Len(response_calls)
CurrentCall == response_calls[call_index]

\* history record of one tool call: what the tool did ("unknown": not in the
\* registry, "raised", "returned") and what the review call did
LogEntry(call, tool, review) ==
    [id |-> call.id, name |-> call.name, tool |-> tool, review |-> review]

\* variant: an unknown tool is answered with a failure message
SkipUnknownTool_Reports ==
    /\ Dispatching
    /\ CurrentCall.name \notin Registry
    /\ tool_messages' =
          Append(tool_messages, ToolMessage(FailureText, CurrentCall.id, CurrentCall.name))
    /\ call_index' = call_index + 1
    /\ call_log' = Append(call_log, LogEntry(CurrentCall, "unknown", "none"))
    /\ UNCHANGED <<request, rv, cs, sc, ws, persist_log, pc, tools_bound, messages, iteration, response_calls,
                   events, splitter, store, model_failed, stream_calls, dispatched,
                   responses>>

\* if not tool_func: continue
SkipUnknownTool ==
    /\ Dispatching
    /\ CurrentCall.name \notin Registry
    /\ call_index' = call_index + 1
    /\ call_log' = Append(call_log, LogEntry(CurrentCall, "unknown", "none"))
    /\ UNCHANGED <<request, rv, cs, sc, ws, persist_log, pc, tools_bound, messages, iteration, response_calls,
                   tool_messages, events, splitter, store, model_failed,
                   stream_calls, dispatched, responses>>

\* the tool message of a call whose tool raised
FailureMessage(call) == ToolMessage(FailureText, call.id, call.name)

\* variant: the tool's failure is not caught and reaches the loop boundary
ToolRaises_Propagates ==
    /\ Dispatching
    /\ CurrentCall.name \in Registry
    /\ dispatched' = dispatched + 1
    /\ call_log' = Append(call_log, LogEntry(CurrentCall, "raised", "none"))
    /\ Emit(<<ErrorEvent>>)
    /\ pc' = "done"
    /\ UNCHANGED <<request, rv, cs, sc, ws, persist_log, tools_bound, messages, iteration, round, splitter,
                   store, model_failed, stream_calls, responses>>

\* tool_func.ainvoke raises: the outer except of the for body
ToolRaises ==
    /\ Dispatching
    /\ CurrentCall.name \in Registry
    /\ tool_messages' = Append(tool_messages, FailureMessage(CurrentCall))
    /\ call_index' = call_index + 1
    /\ dispatched' = dispatched + 1
    /\ call_log' = Append(call_log, LogEntry(CurrentCall, "raised", "none"))
    /\ UNCHANGED <<request, rv, cs, sc, ws, persist_log, pc, tools_bound, messages, iteration, response_calls,
                   events, splitter, store, model_failed, stream_calls, responses>>

\* variant: the output of the review is attached to the result as a section
CombinedContent_WithReview(result, outcome) ==
    IF outcome \in {"none", "raises"} THEN result
    ELSE [result EXCEPT !.review_section = TRUE, !.len = @ + 400]

\* combined_content = str(result): review_text is not attached
CombinedContent(result, outcome) == result

\* the tool message of a call whose tool returned, after the review block
ResultMessage(call, outcome) ==
    ToolMessage(CombinedContent(IF SearchLike(call.name)
                                THEN ReviewedResult(RawResult(call.name), outcome)
                                ELSE RawResult(call.name),
                                outcome),
                call.id, call.name)

\* variant: the tool message of a returned call is put in front of the
\* round's tool messages
ToolReturns_Prepends ==
    /\ Dispatching
    /\ CurrentCall.name \in Registry
    /\ \E outcome \in (IF SearchLike(CurrentCall.name) THEN ReviewOutcomes ELSE {"none"}) :
        /\ tool_messages' = <<ResultMessage(CurrentCall, outcome)>> \o tool_messages
        /\ call_log' = Append(call_log, LogEntry(CurrentCall, "returned", outcome))
    /\ call_index' = call_index + 1
    /\ dispatched' = dispatched + 1
    /\ UNCHANGED <<request, rv, cs, sc, ws, persist_log, pc, tools_bound, messages, iteration, response_calls,
                   events, splitter, store, model_failed, stream_calls, responses>>
\* tool_func.ainvoke returns; a search-like tool's result goes through the review
ToolReturns ==
    /\ Dispatching
    /\ CurrentCall.name \in Registry
    /\ \E outcome \in (IF SearchLike(CurrentCall.name) THEN ReviewOutcomes ELSE {"none"}) :
        /\ tool_messages' = Append(tool_messages, ResultMessage(CurrentCall, outcome))
        /\ call_log' = Append(call_log, LogEntry(CurrentCall, "returned", outcome))
    /\ call_index' = call_index + 1
    /\ dispatched' = dispatched + 1
    /\ UNCHANGED <<request, rv, cs, sc, ws, persist_log, pc, tools_bound, messages, iteration, response_calls,
                   events, splitter, store, model_failed, stream_calls, responses>>

\* variant: no tool_results event when the round produced no tool message
EmitToolResults_OnlyIfAny ==
    /\ pc = "dispatch"
    /\ call_index > Len(response_calls)
    /\ messages' = messages \o tool_messages
    /\ Emit(IF tool_messages = <<>> THEN <<>>
            ELSE <<Event("tool_results",
                         [i \in DOMAIN tool_messages |->
                             [tool |-> tool_messages[i].name,
                              content |-> EventContent(tool_messages[i].content)]],
                         TRUE)>>)
    /\ pc' = "loop"
    /\ UNCHANGED <<request, rv, cs, sc, ws, persist_log, tools_bound, iteration, round, splitter, store,
                   model_failed, stream_calls, dispatched, responses, call_log>>

\* execute_tool_calls returned: messages.extend(tool_messages), tool_results event
EmitToolResults ==
    /\ pc = "dispatch"
    /\ call_index > Len(response_calls)
    /\ messages' = messages \o tool_messages
    /\ Emit(<<Event("tool_results",
                    [i \in DOMAIN tool_messages |->
                        [tool |-> tool_messages[i].name,
                         content |-> EventContent(tool_messages[i].content)]],
                    TRUE)>>)
    /\ pc' = "loop"
    /\ UNCHANGED <<request, rv, cs, sc, ws, persist_log, tools_bound, iteration, round, splitter, store,
                   model_failed, stream_calls, dispatched, responses, call_log>>

(***************************************************************************)
(* Final streaming call and the reasoning/answer splitter.                 *)
(***************************************************************************)
\* variant: the final answer is streamed out of the last response, without a
\* model.astream call
BeginStream_NoNewCall ==
    /\ \/ pc = "final"
       \/ pc = "loop" /\ ~LoopGuard(iteration, max_iterations)
    /\ pc' = "stream"
    /\ UNCHANGED <<request, rv, cs, sc, ws, persist_log, tools_bound, messages, iteration, round, events,
                   splitter, store, model_failed, stream_calls, dispatched,
                   responses, call_log>>
\* the loop was left (break, or the while condition is false) and
\* model.astream(messages) is called
BeginStream ==
    /\ \/ pc = "final"
       \/ pc = "loop" /\ ~LoopGuard(iteration, max_iterations)
    /\ stream_calls' = stream_calls + 1
    /\ pc' = "stream"
    /\ UNCHANGED <<request, rv, cs, sc, ws, persist_log, tools_bound, messages, iteration, round, events,
                   splitter, store, model_failed, dispatched, responses, call_log>>

is_reasoner_model == model_name = "deepseek-reasoner"

\* an incremental unit: whether it carries a non-empty reasoning payload
\* (additional_kwargs["reasoning_content"]), a non-empty answer payload
\* (content) and a request for tools (tool_call_chunks); the payload of the
\* n-th unit is written n
Units == [reasoning : BOOLEAN, answer : BOOLEAN, tool_calls : BOOLEAN]

\* the units model.astream can deliver: only a model the tools are bound to
\* requests tools
StreamedUnits == {unit \in Units : unit.tool_calls => tools_bound}

\* the reasoning branch of the loop body is taken (it ends with continue)
TakesReasoningBranch(unit) == is_reasoner_model /\ unit.reasoning

\* variant: thought_process_start is yielded for every reasoning payload
ReasoningEvents_AlwaysStart(n) ==
    <<Event("thought_process_start", <<>>, TRUE),
      Event("thought_process_content", <<n>>, TRUE)>>
\* the events the reasoning branch yields for unit n
ReasoningEvents(n) ==
    (IF ~thought_process_started
     THEN <<Event("thought_process_start", <<>>, TRUE)>> ELSE <<>>)
    \o <<Event("thought_process_content", <<n>>, TRUE)>>

\* variant: thought_process_end is yielded without looking at thought_process_ended
AnswerEvents_NoEndedCheck(n) ==
    (IF is_reasoner_model /\ thought_process_started
     THEN <<Event("thought_process_end", <<>>, TRUE)>> ELSE <<>>)
    \o (IF ~answer_started THEN <<Event("answer_start", <<>>, TRUE)>> ELSE <<>>)
    \o <<Event("content_delta", <<n>>, TRUE)>>

\* the events the content branch yields for unit n
AnswerEvents(n) ==
    (IF is_reasoner_model /\ thought_process_started /\ ~thought_process_ended
     THEN <<Event("thought_process_end", <<>>, TRUE)>> ELSE <<>>)
    \o (IF ~answer_started THEN <<Event("answer_start", <<>>, TRUE)>> ELSE <<>>)
    \o <<Event("content_delta", <<n>>, TRUE)>>

\* variant: a streamed request for tools is reported and dispatched
StreamUnit_ActsOnRequests ==
    /\ pc = "stream"
    /\ chunk_count < MaxUnits
    /\ chunk_count' = chunk_count + 1
    /\ \E unit \in StreamedUnits :
        /\ unit_log' = IF recording THEN Append(unit_log, unit) ELSE unit_log
        /\ streamed_requests' = IF streamed_requests # NotCounted /\ unit.tool_calls
                                THEN streamed_requests + 1
                                ELSE streamed_requests
        /\ dispatched' = IF unit.tool_calls THEN dispatched + 1 ELSE dispatched
        /\ IF unit.tool_calls
           THEN /\ Emit(<<Event("tool_calls", <<"web_search">>, TRUE)>>)
                /\ UNCHANGED <<thought_process_started, thought_process_ended,
                               answer_started, full_response>>
           ELSE IF TakesReasoningBranch(unit)
           THEN /\ thought_process_started' = TRUE
                /\ Emit(ReasoningEvents(chunk_count + 1))
                /\ UNCHANGED <<thought_process_ended, answer_started, full_response>>
           ELSE IF unit.answer
           THEN /\ thought_process_ended' =
                       (thought_process_ended
                        \/ (is_reasoner_model /\ thought_process_started))
                /\ answer_started' = TRUE
                /\ full_response' = Append(full_response, chunk_count + 1)
                /\ Emit(AnswerEvents(chunk_count + 1))
                /\ UNCHANGED thought_process_started
           ELSE UNCHANGED <<thought_process_started, thought_process_ended,
                            answer_started, full_response, events>>
    /\ UNCHANGED <<request, rv, cs, sc, ws, persist_log, pc, tools_bound, messages, iteration, round, store,
                   model_failed, stream_calls, responses, call_log>>
\* variant: the reasoning payloads are accumulated into full_response too
StreamUnit_AccumulatesReasoning ==
    /\ pc = "stream"
    /\ chunk_count < MaxUnits
    /\ chunk_count' = chunk_count + 1
    /\ \E unit \in StreamedUnits :
        /\ unit_log' = IF recording THEN Append(unit_log, unit) ELSE unit_log
        /\ streamed_requests' = IF streamed_requests # NotCounted /\ unit.tool_calls
                                THEN streamed_requests + 1
                                ELSE streamed_requests
        /\ IF TakesReasoningBranch(unit)
           THEN /\ thought_process_started' = TRUE
                /\ full_response' = Append(full_response, chunk_count + 1)
                /\ Emit(ReasoningEvents(chunk_count + 1))
                /\ UNCHANGED <<thought_process_ended, answer_started>>
           ELSE IF unit.answer
           THEN /\ thought_process_ended' =
                       (thought_process_ended
                        \/ (is_reasoner_model /\ thought_process_started))
                /\ answer_started' = TRUE
                /\ full_response' = Append(full_response, chunk_count + 1)
                /\ Emit(AnswerEvents(chunk_count + 1))
                /\ UNCHANGED thought_process_started
           ELSE UNCHANGED <<thought_process_started, thought_process_ended,
                            answer_started, full_response, events>>
    /\ UNCHANGED <<request, rv, cs, sc, ws, persist_log, pc, tools_bound, messages, iteration, round, store,
                   model_failed, stream_calls, dispatched, responses, call_log>>
\* one iteration of `async for chunk in model.astream(messages)`
StreamUnit ==
    /\ pc = "stream"
    /\ chunk_count < MaxUnits
    /\ chunk_count' = chunk_count + 1
    /\ \E unit \in StreamedUnits :
        /\ unit_log' = IF recording THEN Append(unit_log, unit) ELSE unit_log
        /\ streamed_requests' = IF streamed_requests # NotCounted /\ unit.tool_calls
                                THEN streamed_requests + 1
                                ELSE streamed_requests
        /\ IF TakesReasoningBranch(unit)
           THEN /\ thought_process_started' = TRUE
                /\ Emit(ReasoningEvents(chunk_count + 1))
                /\ UNCHANGED <<thought_process_ended, answer_started, full_response>>
           ELSE IF unit.answer
           THEN /\ thought_process_ended' =
                       (thought_process_ended
                        \/ (is_reasoner_model /\ thought_process_started))
                /\ answer_started' = TRUE
                /\ full_response' = Append(full_response, chunk_count + 1)
                /\ Emit(AnswerEvents(chunk_count + 1))
                /\ UNCHANGED thought_process_started
           ELSE UNCHANGED <<thought_process_started, thought_process_ended,
                            answer_started, full_response, events>>
    /\ UNCHANGED <<request, rv, cs, sc, ws, persist_log, pc, tools_bound, messages, iteration, round, store,
                   model_failed, stream_calls, dispatched, responses, call_log>>

\* variant: the failure is reported and the next unit is awaited again
StreamFails_Retries ==
    /\ pc = "stream"
    /\ ~model_failed
    /\ model_failed' = TRUE
    /\ Emit(<<ErrorEvent>>)
    /\ UNCHANGED <<request, rv, cs, sc, ws, persist_log, pc, tools_bound, messages, iteration, round, splitter,
                   store, stream_calls, dispatched, responses, call_log>>

\* model.astream raises, at the call or while the next unit is awaited
StreamFails ==
    /\ pc = "stream"
    /\ model_failed' = TRUE
    /\ Emit(<<ErrorEvent>>)
    /\ pc' = "done"
    /\ UNCHANGED <<request, rv, cs, sc, ws, persist_log, tools_bound, messages, iteration, round, splitter,
                   store, stream_calls, dispatched, responses, call_log>>

\* StreamEnds without the cleanup after the loop over the units
StreamEnds_NoCleanup ==
    /\ pc = "stream"
    /\ pc' = "finish"
    /\ UNCHANGED <<request, rv, cs, sc, ws, persist_log, tools_bound, messages, iteration, round, events,
                   splitter, store, model_failed, stream_calls, dispatched,
                   responses, call_log>>
\* the unit sequence ends: thought_process_end if the reasoning is still open
StreamEnds ==
    /\ pc = "stream"
    /\ IF is_reasoner_model /\ thought_process_started /\ ~thought_process_ended
       THEN /\ thought_process_ended' = TRUE
            /\ Emit(<<Event("thought_process_end", <<>>, TRUE)>>)
       ELSE UNCHANGED <<thought_process_ended, events>>
    /\ pc' = "finish"
    /\ UNCHANGED <<request, rv, cs, sc, ws, persist_log, tools_bound, messages, iteration, round,
                   thought_process_started, answer_started, full_response,
                   chunk_count, unit_log, streamed_requests, store, model_failed,
                   stream_calls, dispatched,
                   responses, call_log>>

\* extract_references_from_content: the markers [n] of the text that name a
\* chunk, each once, in order of first occurrence; the payload of the n-th
\* unit is the text "[n]"
ExtractReferences(text, chunks) ==
    SelectSeq(text, LAMBDA n : 1 <= n /\ n <= Len(chunks))

\* extract_references_from_content(...) if pdf_chunks else []
References(text, chunks) ==
    IF chunks # NoChunks THEN ExtractReferences(text, chunks) ELSE <<>>

\* final_data
CompleteEvent(text, references) ==
    [Event("message_complete", text, TRUE) EXCEPT !.references = references]

\* what append_message(session_id, assistant_msg) does: it writes the record
\* and returns True, or it returns False (there is no record of the session,
\* or reading or writing the record failed), or it raises
PersistFailures == {"no_record", "write_failed", "raised"}
PersistOutcomes == {"saved"} \cup PersistFailures

\* variant: message_complete is yielded only if the message was saved
Finish_CompleteOnlyIfSaved ==
    /\ pc = "finish"
    /\ IF session_id # NoSession
       THEN \E outcome \in PersistOutcomes :
                /\ store' = IF outcome = "saved"
                            THEN Append(store, full_response) ELSE store
                /\ persist_log' = IF recording THEN outcome ELSE persist_log
                /\ Emit(IF outcome = "saved"
                        THEN <<CompleteEvent(full_response,
                                             References(full_response, pdf_chunks))>>
                        ELSE <<>>)
       ELSE /\ UNCHANGED <<store, persist_log>>
            /\ Emit(<<CompleteEvent(full_response,
                                    References(full_response, pdf_chunks))>>)
    /\ pc' = "done"
    /\ UNCHANGED <<request, rv, cs, sc, ws, tools_bound, messages, iteration, round, splitter,
                   model_failed, stream_calls, dispatched, responses, call_log>>

\* variant: an exception of append_message reaches the except clause of the
\* generator
Finish_RaiseEscapes ==
    /\ pc = "finish"
    /\ IF session_id # NoSession
       THEN \E outcome \in PersistOutcomes :
                /\ store' = IF outcome = "saved"
                            THEN Append(store, full_response) ELSE store
                /\ persist_log' = IF recording THEN outcome ELSE persist_log
                /\ Emit(IF outcome = "raised"
                        THEN <<ErrorEvent>>
                        ELSE <<CompleteEvent(full_response,
                                             References(full_response, pdf_chunks))>>)
       ELSE /\ UNCHANGED <<store, persist_log>>
            /\ Emit(<<CompleteEvent(full_response,
                                    References(full_response, pdf_chunks))>>)
    /\ pc' = "done"
    /\ UNCHANGED <<request, rv, cs, sc, ws, tools_bound, messages, iteration, round, splitter,
                   model_failed, stream_calls, dispatched, responses, call_log>>

\* the assistant message is saved if a session id was supplied, then
\* message_complete is yielded
Finish ==
    /\ pc = "finish"
    /\ IF session_id # NoSession
       THEN \E outcome \in PersistOutcomes :
                /\ store' = IF outcome = "saved"
                            THEN Append(store, full_response) ELSE store
                /\ persist_log' = IF recording THEN outcome ELSE persist_log
       ELSE UNCHANGED <<store, persist_log>>
    /\ Emit(<<CompleteEvent(full_response, References(full_response, pdf_chunks))>>)
    /\ pc' = "done"
    /\ UNCHANGED <<request, rv, cs, sc, ws, tools_bound, messages, iteration, round, splitter,
                   model_failed, stream_calls, dispatched, responses, call_log>>

Next ==
    \/ Start
    \/ StartFails
    \/ InvokeFails
    \/ InvokeNoTools
    \/ InvokeTools
    \/ SkipUnknownTool
    \/ ToolRaises
    \/ ToolReturns
    \/ EmitToolResults
    \/ BeginStream
    \/ StreamUnit
    \/ StreamFails
    \/ StreamEnds
    \/ Finish

Spec == Init /\ [][Next]_vars

\* every awaited call returns or raises, and the consumer reads the stream
\* to its end: the generator always takes its next step
FairSpec == Spec /\ WF_vars(Next)

(***************************************************************************)
(* The reasoning/answer splitter on its own: requests whose model was not  *)
(* given tools, with or without document chunks; the units the final       *)
(* streaming call delivers are recorded.                                   *)
(***************************************************************************)
SplitterInit ==
    /\ RequestStart
    /\ pdf_chunks \in ChunkLists
    /\ recording = TRUE
    /\ streamed_requests = NotCounted
    /\ ReviewIdle
    /\ StoreIdle
    /\ ScorerIdle
    /\ SearchIdle

SplitterNext ==
    \/ Start
    \/ StartFails
    \/ InvokeFails
    \/ InvokeNoTools
    \/ BeginStream
    \/ StreamUnit
    \/ StreamFails
    \/ StreamEnds
    \/ Finish

SplitterSpec == SplitterInit /\ [][SplitterNext]_vars

(***************************************************************************)
(* review_search_results on its own: the entries of the result have been   *)
(* scored; the recommendation is computed, then execute_tool_calls selects *)
(* the entries it renders.  The request around the call does not move.     *)
(***************************************************************************)
ReviewInit ==
    /\ RequestStart
    /\ model_name = "deepseek-chat"
    /\ enable_tools = TRUE
    /\ max_iterations = MaxIterations
    /\ session_id = NoSession
    /\ pdf_chunks = NoChunks
    /\ recording = FALSE
    /\ streamed_requests = NotCounted
    /\ rv_pc = "scored"
    /\ rv_scores \in ScoreLists
    /\ rv_recommended = <<>>
    /\ rv_final = <<>>
    /\ StoreIdle
    /\ ScorerIdle
    /\ SearchIdle

\* threshold = 0.4; recommended = ...; the top two if none reaches it
ReviewRecommend ==
    /\ rv_pc = "scored"
    /\ rv_recommended' = Recommended(rv_scores)
    /\ rv_pc' = "recommended"
    /\ UNCHANGED <<request_state, cs, sc, ws, rv_scores, rv_final>>

\* final_entries: the first ten recommendations, padded with the best entries
ReviewRender ==
    /\ rv_pc = "recommended"
    /\ rv_final' = FinalEntries(rv_recommended, rv_scores)
    /\ rv_pc' = "rendered"
    /\ UNCHANGED <<request_state, cs, sc, ws, rv_scores, rv_recommended>>

ReviewNext ==
    \/ ReviewRecommend
    \/ ReviewRender

ReviewSpec == ReviewInit /\ [][ReviewNext]_vars

\* review_search_results on a long result: more entries than are rendered
ReviewManyInit ==
    /\ RequestStart
    /\ model_name = "deepseek-chat"
    /\ enable_tools = TRUE
    /\ max_iterations = MaxIterations
    /\ session_id = NoSession
    /\ pdf_chunks = NoChunks
    /\ recording = FALSE
    /\ streamed_requests = NotCounted
    /\ rv_pc = "scored"
    /\ rv_scores \in ManyScoreLists
    /\ rv_recommended = <<>>
    /\ rv_final = <<>>
    /\ StoreIdle
    /\ ScorerIdle
    /\ SearchIdle

ReviewManySpec == ReviewManyInit /\ [][ReviewNext]_vars

(***************************************************************************)
(* The tool rounds on their own: a request of a model the tools are bound  *)
(* to, followed until the loop is left.                                    *)
(***************************************************************************)
DispatchInit ==
    /\ RequestStart
    /\ model_name = "deepseek-chat"
    /\ enable_tools = TRUE
    /\ max_iterations = MaxIterations
    /\ pdf_chunks = NoChunks
    /\ recording = FALSE
    /\ streamed_requests = NotCounted
    /\ ReviewIdle
    /\ StoreIdle
    /\ ScorerIdle
    /\ SearchIdle

DispatchNext ==
    \/ Start
    \/ InvokeNoTools
    \/ InvokeTools
    \/ SkipUnknownTool
    \/ ToolRaises
    \/ ToolReturns
    \/ EmitToolResults

DispatchSpec == DispatchInit /\ [][DispatchNext]_vars

(***************************************************************************)
(* The consumer of the stream.  The generator runs only while its consumer *)
(* asks for the next event; a consumer that stops (the client disconnects  *)
(* and the generator is closed or dropped) leaves it suspended at the      *)
(* yield of the last event consumed, and nothing after that yield runs.    *)
(***************************************************************************)
\* variant: what was streamed so far is saved when the consumer stops
ClientStops_Flushes ==
    /\ pc \notin {"done", "closed"}
    /\ pc' = "closed"
    /\ store' = IF session_id # NoSession /\ full_response # <<>>
                THEN Append(store, full_response) ELSE store
    /\ UNCHANGED <<request, rv, cs, sc, ws, persist_log, tools_bound, messages, iteration, round,
                   events, splitter, model_failed, stream_calls, dispatched,
                   responses, call_log>>

\* the consumer stops asking for events before the generator has finished
ClientStops ==
    /\ pc \notin {"done", "closed"}
    /\ pc' = "closed"
    /\ UNCHANGED <<request, rv, cs, sc, ws, persist_log, tools_bound, messages, iteration, round,
                   events, splitter, store, model_failed, stream_calls, dispatched,
                   responses, call_log>>

\* a request of a model the tools are bound to, with a consumer that may stop
ConsumerInit ==
    /\ RequestStart
    /\ model_name = "deepseek-chat"
    /\ enable_tools = TRUE
    /\ max_iterations = MaxIterations
    /\ pdf_chunks = NoChunks
    /\ recording = FALSE
    /\ streamed_requests = NotCounted
    /\ ReviewIdle
    /\ StoreIdle
    /\ ScorerIdle
    /\ SearchIdle

ConsumerNext ==
    \/ Next
    \/ ClientStops

ConsumerSpec == ConsumerInit /\ [][ConsumerNext]_vars

(***************************************************************************)
(* conversation_store.py: one JSON file per session id.  append_message is *)
(* two steps, reading the record and writing it back; the title thread it  *)
(* starts reads and writes the record too.  Reads and writes of a file are *)
(* single steps.  cs_got is what the step just taken returned to a         *)
(* get_conversation caller.                                                *)
(***************************************************************************)
StoreInit ==
    /\ RequestStart
    /\ model_name = "deepseek-chat"
    /\ enable_tools = TRUE
    /\ max_iterations = MaxIterations
    /\ session_id = NoSession
    /\ pdf_chunks = NoChunks
    /\ recording = FALSE
    /\ streamed_requests = NotCounted
    /\ ReviewIdle
    /\ StoreIdle
    /\ ScorerIdle
    /\ SearchIdle

\* an append_message call is between its read and its write
Appending == \E w \in Writers : cs_writers[w].pc = "read"

\* create_conversation: a fresh session id, a record without messages
CreateConversation ==
    \E s \in SessionKeys \ cs_created, title \in CreateTitles :
        /\ cs_created' = cs_created \cup {s}
        /\ cs_files' = [cs_files EXCEPT ![s] = Record(title, <<>>)]
        /\ cs_acked' = [cs_acked EXCEPT ![s] = <<>>]
        /\ cs_overlap' = (cs_overlap \/ Appending)
        /\ cs_got' = NothingGot
        /\ cs_returned' = NothingReturned
        /\ UNCHANGED <<request_state, rv, sc, ws, cs_writers, cs_thread, cs_next>>

\* get_conversation: the content of the record file, or None
GetConversation ==
    \E s \in SessionKeys :
        /\ cs_got' = [sid |-> s, rec |-> cs_files[s], acked |-> cs_acked[s]]
        /\ cs_overlap' = (cs_overlap \/ Appending)
        /\ cs_returned' = NothingReturned
        /\ UNCHANGED <<request_state, rv, sc, ws, cs_files, cs_created, cs_writers,
                       cs_thread, cs_acked, cs_next>>

\* delete_conversation of an existing record: the file is removed
DeleteConversation ==
    \E s \in SessionKeys :
        /\ cs_files[s].exists
        /\ cs_files' = [cs_files EXCEPT ![s] = NoRecord]
        /\ cs_acked' = [cs_acked EXCEPT ![s] = <<>>]
        /\ cs_overlap' = (cs_overlap \/ Appending)
        /\ cs_got' = NothingGot
        /\ cs_returned' = CallReturned("delete_conversation", s, TRUE)
        /\ UNCHANGED <<request_state, rv, sc, ws, cs_created, cs_writers, cs_thread, cs_next>>

\* delete_conversation on a session id without record file: returns False
DeleteNoRecord ==
    \E s \in SessionKeys :
        /\ ~cs_files[s].exists
        /\ cs_overlap' = (cs_overlap \/ Appending)
        /\ cs_got' = NothingGot
        /\ cs_returned' = CallReturned("delete_conversation", s, FALSE)
        /\ UNCHANGED <<request_state, rv, sc, ws, cs_files, cs_created, cs_writers,
                       cs_thread, cs_acked, cs_next>>
\* variant: append_message creates the missing record and returns True
AppendNoRecord_Creates ==
    \E w \in Writers, s \in SessionKeys, role \in Roles :
        /\ cs_writers[w].pc = "idle"
        /\ cs_next < MaxAppends
        /\ ~cs_files[s].exists
        /\ cs_next' = cs_next + 1
        /\ cs_overlap' = (cs_overlap \/ Appending)
        /\ cs_files' = [cs_files EXCEPT ![s] =
                           Record("default", <<StoredMessage(role, cs_next + 1)>>)]
        /\ cs_got' = NothingGot
        /\ cs_returned' = CallReturned("append_message", s, TRUE)
        /\ UNCHANGED <<request_state, rv, sc, ws, cs_created, cs_writers,
                       cs_thread, cs_acked>>
\* append_message on a session id without record file: returns False
AppendNoRecord ==
    \E w \in Writers, s \in SessionKeys :
        /\ cs_writers[w].pc = "idle"
        /\ cs_next < MaxAppends
        /\ ~cs_files[s].exists
        /\ cs_next' = cs_next + 1
        /\ cs_overlap' = (cs_overlap \/ Appending)
        /\ cs_got' = NothingGot
        /\ cs_returned' = CallReturned("append_message", s, FALSE)
        /\ UNCHANGED <<request_state, rv, sc, ws, cs_files, cs_created, cs_writers,
                       cs_thread, cs_acked>>

\* append_message: p.exists() and json.load(f)
AppendRead ==
    \E w \in Writers, s \in SessionKeys, role \in Roles :
        /\ cs_writers[w].pc = "idle"
        /\ cs_next < MaxAppends
        /\ cs_files[s].exists
        /\ cs_next' = cs_next + 1
        /\ cs_overlap' = (cs_overlap \/ Appending)
        /\ cs_writers' = [cs_writers EXCEPT ![w] =
                             [pc |-> "read", sid |-> s,
                              msg |-> StoredMessage(role, cs_next + 1),
                              obj |-> cs_files[s]]]
        /\ cs_got' = NothingGot
        /\ cs_returned' = NothingReturned
        /\ UNCHANGED <<request_state, rv, sc, ws, cs_files, cs_created, cs_thread,
                       cs_acked>>

\* the record with the message appended
Appended(obj, msg) == [obj EXCEPT !.messages = Append(@, msg)]

\* the first question and answer are in and the title is a default one
StartsTitleThread(obj) ==
    /\ obj.title = "default"
    /\ Len(obj.messages) = 2
    /\ obj.messages[1].role = "user"
    /\ obj.messages[2].role = "assistant"

\* variant: the message is appended to the record as it is at the write
AppendWrite_Merges ==
    \E w \in Writers :
        LET me == cs_writers[w]
            written == Appended([me.obj EXCEPT !.messages = cs_files[me.sid].messages],
                                me.msg)
        IN  /\ me.pc = "read"
            /\ cs_files' = [cs_files EXCEPT ![me.sid] = written]
            /\ cs_thread' = IF StartsTitleThread(written)
                            THEN [cs_thread EXCEPT ![me.sid] =
                                     [pc |-> "started", obj |-> NoRecord]]
                            ELSE cs_thread
            /\ cs_acked' = [cs_acked EXCEPT ![me.sid] = Append(@, me.msg)]
            /\ cs_writers' = [cs_writers EXCEPT ![w] = IdleWriter]
            /\ cs_got' = NothingGot
            /\ cs_returned' = CallReturned("append_message", me.sid, TRUE)
            /\ UNCHANGED <<request_state, rv, sc, ws, cs_created, cs_overlap, cs_next>>

\* append_message: the message is appended to the record that was read, the
\* title thread is started if due, the record is written, True is returned
AppendWrite ==
    \E w \in Writers :
        LET me == cs_writers[w]
            written == Appended(me.obj, me.msg)
        IN  /\ me.pc = "read"
            /\ cs_files' = [cs_files EXCEPT ![me.sid] = written]
            /\ cs_thread' = IF StartsTitleThread(written)
                            THEN [cs_thread EXCEPT ![me.sid] =
                                     [pc |-> "started", obj |-> NoRecord]]
                            ELSE cs_thread
            /\ cs_acked' = [cs_acked EXCEPT ![me.sid] = Append(@, me.msg)]
            /\ cs_writers' = [cs_writers EXCEPT ![w] = IdleWriter]
            /\ cs_got' = NothingGot
            /\ cs_returned' = CallReturned("append_message", me.sid, TRUE)
            /\ UNCHANGED <<request_state, rv, sc, ws, cs_created, cs_overlap, cs_next>>

\* append_message: reading or writing raises, False is returned
AppendFails ==
    \E w \in Writers :
        /\ cs_writers[w].pc = "read"
        /\ cs_writers' = [cs_writers EXCEPT ![w] = IdleWriter]
        /\ cs_got' = NothingGot
        /\ cs_returned' = CallReturned("append_message", cs_writers[w].sid, FALSE)
        /\ UNCHANGED <<request_state, rv, sc, ws, cs_files, cs_created, cs_thread,
                       cs_acked, cs_overlap, cs_next>>

\* generate_conversation_title: the model answered, the record is read
TitleRead ==
    \E s \in SessionKeys :
        /\ cs_thread[s].pc = "started"
        /\ cs_thread' = [cs_thread EXCEPT ![s] =
                            IF cs_files[s].exists
                            THEN [pc |-> "read", obj |-> cs_files[s]]
                            ELSE [pc |-> "done", obj |-> NoRecord]]
        /\ cs_got' = NothingGot
        /\ cs_returned' = NothingReturned
        /\ UNCHANGED <<request_state, rv, sc, ws, cs_files, cs_created, cs_writers,
                       cs_acked, cs_overlap, cs_next>>

\* generate_conversation_title: the record that was read is written back
\* with the new title
TitleWrite ==
    \E s \in SessionKeys :
        /\ cs_thread[s].pc = "read"
        /\ cs_files' = [cs_files EXCEPT ![s] =
                           [cs_thread[s].obj EXCEPT !.title = "generated"]]
        /\ cs_thread' = [cs_thread EXCEPT ![s] = [pc |-> "done", obj |-> NoRecord]]
        /\ cs_got' = NothingGot
        /\ cs_returned' = NothingReturned
        /\ UNCHANGED <<request_state, rv, sc, ws, cs_created, cs_writers, cs_acked,
                       cs_overlap, cs_next>>

\* generate_conversation_title: no API key, or the model call raises
TitleGivesUp ==
    \E s \in SessionKeys :
        /\ cs_thread[s].pc = "started"
        /\ cs_thread' = [cs_thread EXCEPT ![s] = [pc |-> "done", obj |-> NoRecord]]
        /\ cs_got' = NothingGot
        /\ cs_returned' = NothingReturned
        /\ UNCHANGED <<request_state, rv, sc, ws, cs_files, cs_created, cs_writers,
                       cs_acked, cs_overlap, cs_next>>

StoreNext ==
    \/ CreateConversation
    \/ GetConversation
    \/ DeleteConversation
    \/ DeleteNoRecord
    \/ AppendNoRecord
    \/ AppendRead
    \/ AppendWrite
    \/ AppendFails
    \/ TitleRead
    \/ TitleWrite
    \/ TitleGivesUp

StoreSpec == StoreInit /\ [][StoreNext]_vars

(***************************************************************************)
(* search_review_tool.py: _compute_recency_score.  A string is the         *)
(* sequence of its characters; the four digits of a year, the two digits   *)
(* of the month and of the day, and the marker word are one element each.  *)
(***************************************************************************)
\* needle in hay
Occurs(needle, hay) ==
    \E i \in 0..(Len(hay) - Len(needle)) :
        SubSeq(hay, i + 1, i + Len(needle)) = needle

\* current_date.replace('-', '年')
ReplaceDash(chars) ==
    [i \in DOMAIN chars |-> IF chars[i] = "-" THEN "nian" ELSE chars[i]]

\* re.findall(r"(\d{4})年", text)
YearsFound(chars) ==
    LET at == SelectSeq([i \in 1..(Len(chars) - 1) |-> i],
                        LAMBDA i : chars[i] \in Years /\ chars[i + 1] = "nian")
    IN  [k \in DOMAIN at |-> chars[at[k]]]

NoYear == "None"
\* now_year: the year before the first 年 if current_date has one, else what
\* stands before the first '-'; None if current_date is empty or the parse raises
NowYear(current_date) ==
    IF current_date = <<>> THEN NoYear
    ELSE IF "nian" \in Range(current_date)
    THEN IF YearsFound(current_date) # <<>> THEN YearsFound(current_date)[1] ELSE NoYear
    ELSE IF current_date[1] \in Years THEN current_date[1] ELSE NoYear

\* re.search(r"最近|日前|小时|今天|昨日|昨天|本周|本月|刚刚", text)
HasMarker(chars) == "zuijin" \in Range(chars)

\* _compute_recency_score, in thousandths
RecencyScore(current_date, title, snippet) ==
    LET text == title \o <<" ">> \o snippet
        years == YearsFound(text)
    IN  IF current_date # <<>>
           /\ (Occurs(current_date, text) \/ Occurs(ReplaceDash(current_date), text))
        THEN 1000
        ELSE IF HasMarker(text) THEN 800
        ELSE IF years # <<>>
        THEN IF NowYear(current_date) # NoYear /\ years[1] = NowYear(current_date)
             THEN 600 ELSE 200
        ELSE 300

ScorerInit ==
    /\ RequestStart
    /\ model_name = "deepseek-chat"
    /\ enable_tools = TRUE
    /\ max_iterations = MaxIterations
    /\ session_id = NoSession
    /\ pdf_chunks = NoChunks
    /\ recording = FALSE
    /\ streamed_requests = NotCounted
    /\ ReviewIdle
    /\ StoreIdle
    /\ SearchIdle
    /\ sc_pc = "call"
    /\ sc_current_date \in ReferenceDates
    /\ sc_title \in Titles
    /\ sc_snippet \in Snippets
    /\ sc_score = 0

\* rec = _compute_recency_score(current_date or '', title, snippet)
ComputeRecency ==
    /\ sc_pc = "call"
    /\ sc_score' = RecencyScore(sc_current_date, sc_title, sc_snippet)
    /\ sc_pc' = "done"
    /\ UNCHANGED <<request_state, rv, cs, ws, sc_current_date, sc_title, sc_snippet>>

ScorerNext == ComputeRecency

ScorerSpec == ScorerInit /\ [][ScorerNext]_vars

(***************************************************************************)
(* web_search_tool.py: web_search and search_recent_news share the         *)
(* WebSearchTool that get_search_tool builds on its first call.            *)
(***************************************************************************)
SearchInit ==
    /\ RequestStart
    /\ model_name = "deepseek-chat"
    /\ enable_tools = TRUE
    /\ max_iterations = MaxIterations
    /\ session_id = NoSession
    /\ pdf_chunks = NoChunks
    /\ recording = FALSE
    /\ streamed_requests = NotCounted
    /\ ReviewIdle
    /\ StoreIdle
    /\ ScorerIdle
    /\ SearchIdle

\* get_search_tool(max_results=...): the instance if there is one, else a
\* new WebSearchTool with this max_results
GetSearchTool(instance, max_results) ==
    IF instance.exists THEN instance ELSE Instance(max_results)

\* a call of a search tool, the number of entries of the text it returned,
\* and whether the one entry is the report of an error
SearchCall(tool, max_results, entries, error) ==
    [tool |-> tool, max_results |-> max_results, entries |-> entries,
     error |-> error]

\* search_tool.search(query) when the engine finds `found` results: the
\* first self.max_results of them are returned and formatted
Found(search_tool, found) == Min(found, search_tool.max_results)

\* web_search(query, max_results)
WebSearch ==
    \E max_results \in RequestedMaxResults, found \in 0..MaxFound :
        LET search_tool == GetSearchTool(ws_instance, max_results)
        IN  /\ Len(ws_log) < MaxSearches
            /\ ws_instance' = search_tool
            /\ ws_log' = Append(ws_log,
                                SearchCall("web_search", max_results,
                                           Found(search_tool, found), FALSE))
            /\ UNCHANGED <<request_state, rv, cs, sc>>

\* search_recent_news(topic, days): get_search_tool(max_results=5)
SearchRecentNews ==
    \E found \in 0..MaxFound :
        LET search_tool == GetSearchTool(ws_instance, DefaultMaxResults)
        IN  /\ Len(ws_log) < MaxSearches
            /\ ws_instance' = search_tool
            /\ ws_log' = Append(ws_log,
                                SearchCall("search_recent_news", DefaultMaxResults,
                                           Found(search_tool, found), FALSE))
            /\ UNCHANGED <<request_state, rv, cs, sc>>

\* web_search when the search engine raises or was not initialised: search
\* returns the one entry that reports the error
SearchReportsError ==
    \E max_results \in RequestedMaxResults :
        /\ Len(ws_log) < MaxSearches
        /\ ws_instance' = GetSearchTool(ws_instance, max_results)
        /\ ws_log' = Append(ws_log, SearchCall("web_search", max_results, 1, TRUE))
        /\ UNCHANGED <<request_state, rv, cs, sc>>

SearchNext ==
    \/ WebSearch
    \/ SearchRecentNews
    \/ SearchReportsError

SearchSpec == SearchInit /\ [][SearchNext]_vars

(***************************************************************************)
(* The tool rounds followed by the final streaming call: requests of       *)
(* deepseek-chat, with and without tools, with and without rounds allowed; *)
(* the streamed units that request tools are counted.                      *)
(***************************************************************************)
RoundsInit ==
    /\ RequestStart
    /\ model_name = "deepseek-chat"
    /\ session_id = NoSession
    /\ pdf_chunks = NoChunks
    /\ recording = FALSE
    /\ streamed_requests = 0
    /\ ReviewIdle
    /\ StoreIdle
    /\ ScorerIdle
    /\ SearchIdle

RoundsSpec == RoundsInit /\ [][Next]_vars

(***************************************************************************)
(* A chat stream for a session id the client supplied and the store has no *)
(* record of: chat_stream's and the generator's append_message on the id,  *)
(* delete_conversation on it, and the stream of a request without tools.   *)
(***************************************************************************)
MissingRecordInit ==
    /\ RequestStart
    /\ model_name = "deepseek-chat"
    /\ enable_tools = FALSE
    /\ session_id = "s1"
    /\ pdf_chunks = NoChunks
    /\ recording = TRUE
    /\ streamed_requests = NotCounted
    /\ ReviewIdle
    /\ StoreIdle
    /\ ScorerIdle
    /\ SearchIdle

MissingRecordNext ==
    \/ AppendNoRecord
    \/ DeleteNoRecord
    \/ Start
    \/ StartFails
    \/ InvokeFails
    \/ InvokeNoTools
    \/ BeginStream
    \/ StreamUnit
    \/ StreamFails
    \/ StreamEnds
    \/ Finish

MissingRecordSpec == MissingRecordInit /\ [][MissingRecordNext]_vars

(***************************************************************************)
(* Reading the event stream and the message list.                          *)
(***************************************************************************)
Positions(type) == {i \in DOMAIN events : events[i].type = type}
Count(type) == Cardinality(Positions(type))
IsTerminal(e) == e.type \in {"message_complete", "error"}
Terminals == {i \in DOMAIN events : IsTerminal(events[i])}
StreamOver == pc = "done"
\* the tool_calls and tool_results events, in stream order
ToolEvents == SelectSeq(events, LAMBDA e : e.type \in {"tool_calls", "tool_results"})
\* the assistant messages appended by the loop, in order
Groups == SelectSeq(messages, LAMBDA m : m.role = "assistant")
\* the number of leading responses that requested tools
RECURSIVE LeadingToolRounds(_)
LeadingToolRounds(rs) ==
    IF rs = <<>> \/ rs[1] # "tools" THEN 0 ELSE 1 + LeadingToolRounds(Tail(rs))

(***************************************************************************)
(* C1: a stream consumed to its end holds exactly one terminal event       *)
(* (message_complete or error), that event is the last one, and no         *)
(* terminal event is in the stream before the generator has finished.      *)
(***************************************************************************)
C1_OneTerminalLast ==
    /\ StreamOver => /\ Terminals = {Len(events)}
                     /\ Len(events) >= 1
    /\ ~StreamOver => Terminals = {}

\* a finished stream with tool rounds, answer content and message_complete
C1_Witness ==
    /\ StreamOver
    /\ Count("tool_results") >= 1
    /\ Count("content_delta") >= 1
    /\ events[Len(events)].type = "message_complete"

(***************************************************************************)
(* C2: whatever the model answers, at most max_iterations rounds of tool   *)
(* dispatch happen (tool_calls events, assistant groups in the message     *)
(* list), and when every call returns or raises the stream eventually ends *)
(* with exactly one terminal event.                                        *)
(***************************************************************************)
C2_BoundedRoundsThenEnds ==
    /\ [](/\ Count("tool_calls") <= max_iterations
          /\ Len(Groups) <= max_iterations
          /\ iteration <= max_iterations)
    /\ <>(StreamOver /\ Cardinality(Terminals) = 1)

\* the model asked for tools in every round up to the ceiling, and the stream ended
C2_Witness ==
    /\ StreamOver
    /\ max_iterations = MaxIterations
    /\ Len(Groups) = max_iterations
    /\ \A i \in DOMAIN responses : responses[i] = "tools"

(***************************************************************************)
(* C3: when the model requested tools in its first k responses, the stream *)
(* holds exactly k tool_calls and k tool_results events, alternating       *)
(* (tool_calls first), the i-th pair belonging to the i-th round.          *)
(***************************************************************************)
C3_ToolEventsPerRound ==
    LET k == LeadingToolRounds(responses)
        open == IF pc = "dispatch" THEN 1 ELSE 0
    IN  /\ Count("tool_calls") = k
        /\ Count("tool_results") = k - open
        /\ \A i \in DOMAIN ToolEvents :
              ToolEvents[i].type = IF i % 2 = 1 THEN "tool_calls" ELSE "tool_results"
        /\ \A r \in 1..k :
              ToolEvents[2 * r - 1].data =
                  [i \in DOMAIN Groups[r].tool_calls |-> Groups[r].tool_calls[i].name]

\* two tool rounds, up to the ceiling, and the stream completed
C3_Witness ==
    /\ StreamOver
    /\ responses = <<"tools", "tools">>
    /\ Count("tool_calls") = 2
    /\ Count("message_complete") = 1

(***************************************************************************)
(* C4 as stated: when the first non-streaming response carries no tool     *)
(* calls, the finished stream holds no tool_calls event, no tool_results   *)
(* event and exactly one message_complete event.                           *)
(***************************************************************************)
FirstResponseToolFree == responses # <<>> /\ responses[1] = "tool_free"

C4_Original ==
    (StreamOver /\ FirstResponseToolFree) =>
        /\ Count("tool_calls") = 0
        /\ Count("tool_results") = 0
        /\ Count("message_complete") = 1

(***************************************************************************)
(* C4 as amended: when the first non-streaming response carries no tool    *)
(* calls, the stream never holds a tool_calls or tool_results event, and   *)
(* the finished stream holds exactly one message_complete event unless the *)
(* final streaming call raised, in which case it holds none and exactly    *)
(* one error event.                                                        *)
(***************************************************************************)
C4_ToolFreeResponse ==
    FirstResponseToolFree =>
        /\ Count("tool_calls") = 0
        /\ Count("tool_results") = 0
        /\ dispatched = 0
        /\ StreamOver =>
              IF model_failed
              THEN Count("message_complete") = 0 /\ Count("error") = 1
              ELSE Count("message_complete") = 1 /\ Count("error") = 0

\* a tool-free first response of a tool-bound model, streamed to completion
C4_Witness ==
    /\ StreamOver
    /\ FirstResponseToolFree
    /\ tools_bound
    /\ max_iterations = MaxIterations
    /\ Count("content_delta") >= 1
    /\ Count("message_complete") = 1

(***************************************************************************)
(* C5: once a model invocation has raised (model.ainvoke in any round or   *)
(* model.astream at any unit), the stream is over, its last and only       *)
(* terminal event is one error event, and nothing happens afterwards: no   *)
(* model invocation, no tool dispatch, no further event.                   *)
(***************************************************************************)
C5_ModelFailureIsFatal ==
    /\ [](model_failed =>
            /\ StreamOver
            /\ Count("error") = 1
            /\ Count("message_complete") = 0
            /\ events[Len(events)].type = "error")
    /\ [][model_failed =>
            /\ events' = events
            /\ iteration' = iteration
            /\ stream_calls' = stream_calls
            /\ dispatched' = dispatched]_vars

\* the streaming call raised after a tool round and after units were delivered
C5_Witness ==
    /\ model_failed
    /\ stream_calls = 1
    /\ chunk_count >= 1
    /\ Count("tool_results") >= 1
    /\ Count("content_delta") >= 1

(***************************************************************************)
(* Tool calls and their tool messages.                                     *)
(***************************************************************************)
\* the tool messages produced so far, in order
AllToolMessages ==
    SelectSeq(messages, LAMBDA m : m.role = "tool")
    \o (IF pc = "dispatch" THEN tool_messages ELSE <<>>)
\* the tool messages answering the call with this id
MessagesFor(id) == SelectSeq(AllToolMessages, LAMBDA m : m.tool_call_id = id)
\* an error event has one of the causes the loop boundary knows:
\* a model invocation raised, or the model could not be built
ErrorOnlyFromModel ==
    Count("error") >= 1 => (model_failed \/ (events = <<ErrorEvent>> /\ iteration = 0))
\* the ids of the log entries after position i that belong to the same round
LaterInRound(i) ==
    {j \in DOMAIN call_log : j > i /\ call_log[j].id[1] = call_log[i].id[1]}

(***************************************************************************)
(* C6: a tool call whose name is not in the registry gets no tool message, *)
(* the later tool calls of its round are still dispatched (the round's     *)
(* tool_results event lists exactly the calls with a registered name, in   *)
(* order), and no error event is caused by it.                             *)
(***************************************************************************)
C6_UnknownToolSkipped ==
    /\ \A i \in DOMAIN call_log :
          call_log[i].tool = "unknown" => MessagesFor(call_log[i].id) = <<>>
    /\ \A r \in 1..Count("tool_results") :
          LET names == ToolEvents[2 * r - 1].data
              results == ToolEvents[2 * r].data
          IN  [i \in DOMAIN results |-> results[i].tool]
                  = SelectSeq(names, LAMBDA n : n \in Registry)
    /\ ErrorOnlyFromModel

\* an unknown tool followed by a dispatched call in the same round; the stream completed
C6_Witness ==
    /\ StreamOver
    /\ Count("message_complete") = 1
    /\ \E i \in DOMAIN call_log :
          /\ call_log[i].tool = "unknown"
          /\ \E j \in LaterInRound(i) : call_log[j].tool = "returned"

(***************************************************************************)
(* C7: a registered tool that raises yields exactly one tool message for   *)
(* its call, carrying the failure text, the call's id and name; the later  *)
(* calls of the round are still handled, and no error event is caused by   *)
(* it (the loop goes on to the next round).                                *)
(***************************************************************************)
C7_ToolFailureCaptured ==
    /\ \A i \in DOMAIN call_log :
          call_log[i].tool = "raised" =>
              MessagesFor(call_log[i].id) =
                  <<ToolMessage(FailureText, call_log[i].id, call_log[i].name)>>
    /\ \A i \in DOMAIN call_log :
          (call_log[i].tool = "raised" /\ pc # "dispatch") =>
              \E r \in 1..Count("tool_results") :
                  \E k \in DOMAIN ToolEvents[2 * r].data :
                      ToolEvents[2 * r].data[k].content.kind = "tool_failed"
    /\ ErrorOnlyFromModel

\* a tool raised in the first round, a second round followed and the stream completed
C7_Witness ==
    /\ StreamOver
    /\ Count("message_complete") = 1
    /\ Len(call_log) = 2
    /\ call_log[1].tool = "raised"
    /\ call_log[2].id[1] = 2
    /\ call_log[2].tool = "returned"

(***************************************************************************)
(* C8: when a search-like tool returned and its review failed (the review  *)
(* raised, returned an error object, or returned output that cannot be     *)
(* parsed or rendered), the tool message of the call carries exactly the   *)
(* raw result of the tool, not a failure text and not a filtered text.     *)
(***************************************************************************)
ReviewFailures == {"raises", "error_object", "unparsable", "bad_entries"}

C8_ReviewFailureFallsBack ==
    \A i \in DOMAIN call_log :
        (call_log[i].tool = "returned" /\ call_log[i].review \in ReviewFailures) =>
            MessagesFor(call_log[i].id) =
                <<ToolMessage(RawResult(call_log[i].name), call_log[i].id,
                              call_log[i].name)>>

\* one review raised and another returned unparsable output; both rounds reported
C8_Witness ==
    /\ StreamOver
    /\ Count("message_complete") = 1
    /\ \E i, j \in DOMAIN call_log :
          /\ call_log[i].review = "raises"
          /\ call_log[j].review = "unparsable"

(***************************************************************************)
(* C9: thought_process_end occurs at most once in a stream, and before     *)
(* message_complete when both occur.                                       *)
(***************************************************************************)
C9_ThoughtEndOnceBeforeComplete ==
    /\ Count("thought_process_end") <= 1
    /\ \A i \in Positions("thought_process_end") :
          \A j \in Positions("message_complete") : i < j

\* reasoning, then answers: the end was yielded by the content branch, once
C9_Witness ==
    /\ StreamOver
    /\ Count("thought_process_end") = 1
    /\ Count("content_delta") >= 2
    /\ Count("message_complete") = 1

(***************************************************************************)
(* C10 as stated: answer_start occurs at most once in a stream and no      *)
(* thought_process_start, thought_process_content or thought_process_end   *)
(* event occurs after it, for every ordering of the payloads.              *)
(***************************************************************************)
ThoughtTypes ==
    {"thought_process_start", "thought_process_content", "thought_process_end"}

C10_Original ==
    /\ Count("answer_start") <= 1
    /\ \A i \in Positions("answer_start") :
          \A j \in DOMAIN events : j > i => events[j].type \notin ThoughtTypes

(***************************************************************************)
(* C11 as stated: a finished stream that holds thought_process_start and   *)
(* never opened the answer channel holds thought_process_end, whichever    *)
(* terminal event (message_complete or error) ended it.                    *)
(***************************************************************************)
C11_Original ==
    (StreamOver /\ Count("thought_process_start") >= 1 /\ Count("answer_start") = 0)
        => Count("thought_process_end") >= 1

(***************************************************************************)
(* C11 as amended: a stream ended by message_complete that holds           *)
(* thought_process_start holds thought_process_end before message_complete,*)
(* also when the answer channel was never opened; a stream that the        *)
(* streaming call ended with error while the reasoning was still open      *)
(* holds no thought_process_end.                                           *)
(***************************************************************************)
C11_ThoughtEndBeforeComplete ==
    /\ (Count("message_complete") >= 1 /\ Count("thought_process_start") >= 1)
          => /\ Count("thought_process_end") >= 1
             /\ \A i \in Positions("thought_process_end") :
                   \A j \in Positions("message_complete") : i < j
    /\ (StreamOver /\ Count("error") >= 1 /\ Count("answer_start") = 0)
          => Count("thought_process_end") = 0

\* reasoning only, then the unit sequence ends: the end comes from the cleanup
C11_Witness ==
    /\ StreamOver
    /\ Count("thought_process_content") >= 2
    /\ Count("answer_start") = 0
    /\ Count("thought_process_end") = 1
    /\ events[Len(events)].type = "message_complete"
    /\ events[Len(events) - 1].type = "thought_process_end"

(***************************************************************************)
(* C12 as stated: once a content_delta or a thought_process_end event has  *)
(* been emitted, no thought_process_start or thought_process_content event *)
(* is emitted later in the same stream (answering is terminal).            *)
(***************************************************************************)
C12_Original ==
    \A i \in Positions("content_delta") \cup Positions("thought_process_end") :
        \A j \in DOMAIN events :
            j > i => events[j].type \notin
                        {"thought_process_start", "thought_process_content"}

(***************************************************************************)
(* Model invocations of a request: the model.ainvoke calls of the loop and *)
(* the model.astream calls after it.                                       *)
(***************************************************************************)
ModelInvocations == Len(responses) + stream_calls

(***************************************************************************)
(* C16 as stated: a finished request with tools disabled whose model       *)
(* response was tool-free made exactly one model invocation.               *)
(***************************************************************************)
C16_Original ==
    (StreamOver /\ ~enable_tools /\ FirstResponseToolFree) => ModelInvocations = 1

(***************************************************************************)
(* C16 as amended: a finished request with tools disabled whose first      *)
(* non-streaming response was tool-free made exactly two model             *)
(* invocations, that one model.ainvoke call and one model.astream call.    *)
(***************************************************************************)
C16_TwoInvocations ==
    (StreamOver /\ ~enable_tools /\ FirstResponseToolFree) =>
        /\ responses = <<"tool_free">>
        /\ stream_calls = 1
        /\ ModelInvocations = 2

\* tools disabled, a tool-free response, then the answer is streamed
C16_Witness ==
    /\ StreamOver
    /\ ~enable_tools
    /\ FirstResponseToolFree
    /\ Count("answer_start") = 1
    /\ Count("message_complete") = 1

(***************************************************************************)
(* C17: once the loop is entered the message list is the initial list      *)
(* followed by zero or more groups, each one assistant message carrying    *)
(* tool calls followed by tool messages whose tool_call_id is the id of a  *)
(* tool call of that assistant message (the nearest preceding one); and a  *)
(* step of the loop only appends: the list before the step is a prefix of  *)
(* the list after it.                                                      *)
(***************************************************************************)
\* the position of the nearest assistant message before position i (0: none)
GroupHead(i) ==
    LET heads == {j \in 1..(i - 1) : messages[j].role = "assistant"}
    IN IF heads = {} THEN 0 ELSE CHOOSE j \in heads : \A k \in heads : k <= j

CallIds(m) == {m.tool_calls[k].id : k \in DOMAIN m.tool_calls}

GroupedMessages ==
    /\ Len(messages) >= Len(InitialMessages)
    /\ SubSeq(messages, 1, Len(InitialMessages)) =
          (IF pc = "start" THEN InitialMessages
           ELSE WithDocuments(InitialMessages, pdf_chunks))
    /\ \A i \in (Len(InitialMessages) + 1)..Len(messages) :
          \/ /\ messages[i].role = "assistant"
             /\ messages[i].tool_calls # <<>>
          \/ /\ messages[i].role = "tool"
             /\ GroupHead(i) > Len(InitialMessages)
             /\ messages[i].tool_call_id \in CallIds(messages[GroupHead(i)])

AppendOnly ==
    pc # "start" =>
        /\ Len(messages') >= Len(messages)
        /\ SubSeq(messages', 1, Len(messages)) = messages

C17_GroupedAppendOnly == [](GroupedMessages) /\ [][AppendOnly]_vars

\* two complete groups: assistant, tool message, assistant, tool message
C17_Witness ==
    /\ Len(messages) = Len(InitialMessages) + 4
    /\ messages[3].role = "assistant" /\ messages[4].role = "tool"
    /\ messages[5].role = "assistant" /\ messages[6].role = "tool"
    /\ messages[6].tool_call_id \in CallIds(messages[5])
    /\ messages[6].tool_call_id \notin CallIds(messages[3])

(***************************************************************************)
(* C18: the tool calls of a round are handled one at a time in the order   *)
(* received (the log of handled calls lists, round by round, the calls of  *)
(* the response from the first on without gap or repetition, and while a   *)
(* round is dispatched the next call to handle is the one after the last   *)
(* logged), each call yields at most one tool message, and the tool        *)
(* messages and the entries of the tool_results event follow the order of  *)
(* the calls in the tool_calls event.                                      *)
(***************************************************************************)
\* the call with id a was received before the call with id b
Earlier(a, b) == a[1] < b[1] \/ (a[1] = b[1] /\ a[2] < b[2])

\* the names of a tool_calls event that are names of registered tools
RegisteredOf(event) == SelectSeq(event.data, LAMBDA n : n \in Registry)

\* the tools of the entries of a tool_results event, in order
ToolsOf(event) == [i \in DOMAIN event.data |-> event.data[i].tool]

SearchNamed == {"web_search", "search_recent_news", "review_search_results"}

Returned == {i \in DOMAIN call_log : call_log[i].tool = "returned"}

C19_ReviewOnlySearchLike ==
    /\ \A i \in DOMAIN call_log :
          call_log[i].review # "none" =>
              (call_log[i].tool = "returned" /\ call_log[i].name \in SearchNamed)
    /\ \A i \in Returned :
          call_log[i].name \in SearchNamed => call_log[i].review \in ReviewOutcomes
    /\ LET tms == AllToolMessages
       IN  \A i \in Returned :
              call_log[i].name \notin SearchNamed =>
                  \A k \in DOMAIN tms :
                      tms[k].tool_call_id = call_log[i].id =>
                          tms[k] = ToolMessage(RawResult(call_log[i].name),
                                               call_log[i].id, call_log[i].name)
    /\ pc = "start" => \A n \in Registry : SearchLike(n) <=> n \in SearchNamed

\* one round: web_search reviewed and re-rendered, get_current_time raw
C19_Witness ==
    /\ pc = "loop"
    /\ \E i, j \in Returned :
          /\ call_log[i].name = "web_search" /\ call_log[i].review = "ok"
          /\ MessagesFor(call_log[i].id)[1].content.kind = "filtered"
          /\ call_log[j].name = "get_current_time" /\ call_log[j].review = "none"
          /\ MessagesFor(call_log[j].id)[1].content = RawTimeResult

(***************************************************************************)
(* Reading the units of the final streaming call.                          *)
(***************************************************************************)
\* the positions of the logged units that satisfy Test, in order
UnitsWhere(Test(_)) ==
    SelectSeq([n \in DOMAIN unit_log |-> n], LAMBDA n : Test(unit_log[n]))
HasAnswer(unit) == unit.answer
HasReasoning(unit) == unit.reasoning
\* the payloads of the events of a type, in stream order
Payloads(type) ==
    LET es == SelectSeq(events, LAMBDA e : e.type = type)
    IN [i \in DOMAIN es |-> es[i].data[1]]

(***************************************************************************)
(* C13 as stated: every unit with a non-empty answer payload, also one     *)
(* that carries a reasoning payload too, yields one content_delta with     *)
(* that payload, and the payload is part of the accumulated full answer:   *)
(* the content_delta payloads and the full answer are the answer payloads  *)
(* of the units, in order.                                                 *)
(***************************************************************************)
C13_Original ==
    /\ Payloads("content_delta") = UnitsWhere(HasAnswer)
    /\ full_response = UnitsWhere(HasAnswer)

(***************************************************************************)
(* C14 as stated: for every model identifier, the thought_process_content  *)
(* payloads are the reasoning payloads of the units, in order, and         *)
(* thought_process_start is emitted once, immediately before the first of  *)
(* them, if a unit carried a reasoning payload.                            *)
(***************************************************************************)
ReasoningReported ==
    /\ Payloads("thought_process_content") = UnitsWhere(HasReasoning)
    /\ Count("thought_process_start") <= 1
    /\ Count("thought_process_start") = 1 <=> UnitsWhere(HasReasoning) # <<>>
    /\ \A i \in Positions("thought_process_start") :
          /\ i < Len(events)
          /\ events[i + 1].type = "thought_process_content"
          /\ \A j \in Positions("thought_process_content") : i < j

C14_Original == ReasoningReported

(***************************************************************************)
(* C14 as amended: for the model identifier deepseek-reasoner the          *)
(* thought_process_content payloads are the reasoning payloads of the      *)
(* units, in order, and thought_process_start is emitted once, immediately *)
(* before the first of them, if a unit carried a reasoning payload; for    *)
(* every other model identifier a reasoning payload causes no              *)
(* thought_process event.                                                  *)
(***************************************************************************)
C14_ReasonerOnly ==
    IF is_reasoner_model
    THEN ReasoningReported
    ELSE \A i \in DOMAIN events : events[i].type \notin ThoughtTypes

\* the reasoner delivered three reasoning units: one start, three contents
C14_Witness ==
    /\ is_reasoner_model
    /\ Len(UnitsWhere(HasReasoning)) = 3
    /\ Count("thought_process_start") = 1
    /\ Count("thought_process_content") = 3
    /\ StreamOver

(***************************************************************************)
(* C15 as stated: answer_start is emitted if and only if a content_delta   *)
(* is emitted, immediately before the first content_delta; it is emitted   *)
(* on the first answer payload of the units, whether or not reasoning      *)
(* occurred; message_complete of a request without document chunks has an  *)
(* empty references list.                                                  *)
(***************************************************************************)
AnswerStartFramesDeltas ==
    /\ Count("answer_start") <= 1
    /\ Count("answer_start") = 1 <=> Count("content_delta") >= 1
    /\ \A i \in Positions("answer_start") :
          /\ i < Len(events)
          /\ events[i + 1].type = "content_delta"
          /\ \A j \in Positions("content_delta") : i < j

NoChunksNoReferences ==
    pdf_chunks = NoChunks =>
        \A i \in Positions("message_complete") : events[i].references = <<>>

C15_Original ==
    /\ AnswerStartFramesDeltas
    /\ UnitsWhere(HasAnswer) # <<>> =>
          \E i \in Positions("answer_start") :
              events[i + 1].data = <<UnitsWhere(HasAnswer)[1]>>
    /\ NoChunksNoReferences

\* the parts of C15 that do not depend on which payload opens the answer
AnswerFramingHolds == AnswerStartFramesDeltas /\ NoChunksNoReferences

(***************************************************************************)
(* C20: review_search_results recommends exactly the entries whose final   *)
(* score is at least 0.4, in their original order; if no entry reaches 0.4 *)
(* it recommends the two entries with the highest final scores, the better *)
(* first, ties broken by original order, or all entries when fewer than    *)
(* two exist, and none when there are no entries.                          *)
(***************************************************************************)
\* entry a is ranked before entry b: higher score, or same score and earlier
RankedBefore(scores, a, b) ==
    scores[a] > scores[b] \/ (scores[a] = scores[b] /\ a < b)

AtOrAbove(scores) == {i \in DOMAIN scores : scores[i] >= Threshold}

IsRecommendation(rec, scores) ==
    IF AtOrAbove(scores) # {}
    THEN /\ Range(rec) = AtOrAbove(scores)
         /\ \A i, j \in DOMAIN rec : i < j => rec[i] < rec[j]
    ELSE /\ Len(rec) = Min(2, Len(scores))
         /\ Range(rec) \subseteq DOMAIN scores
         /\ \A i, j \in DOMAIN rec : i < j => RankedBefore(scores, rec[i], rec[j])
         /\ \A c \in Range(rec) :
               \A o \in DOMAIN scores \ Range(rec) : RankedBefore(scores, c, o)

C20_RecommendationRule ==
    rv_pc \in {"recommended", "rendered"} => IsRecommendation(rv_recommended, rv_scores)

\* no entry reaches the threshold and the second place is tied: the best
\* entry, then the earlier of the two tied ones
C20_Witness ==
    /\ rv_pc = "recommended"
    /\ rv_scores = <<100, 300, 100>>
    /\ rv_recommended = <<2, 1>>

(***************************************************************************)
(* C21 as stated: whatever the number of parsed entries, the review        *)
(* outcome recommends at most 10 entries.                                  *)
(***************************************************************************)
C21_Original ==
    rv_pc \in {"recommended", "rendered"} => Len(rv_recommended) <= MaxRendered

(***************************************************************************)
(* C22: the re-rendered output lists min(10, number of parsed entries)     *)
(* entries and none twice: first the recommended entries in recommended    *)
(* order (at most 10), then, if fewer than 10, entries not yet included in *)
(* descending final score, the best of the remaining ones; for the final   *)
(* scores [0.6, 0.2, 0.45] the 0.6 and the 0.45 entry come first, in that  *)
(* order.                                                                  *)
(***************************************************************************)
IsRendering(final, rec, scores) ==
    LET k == Min(MaxRendered, Len(rec))
    IN  /\ Len(final) = Min(MaxRendered, Len(scores))
        /\ \A i, j \in DOMAIN final : i # j => final[i] # final[j]
        /\ SubSeq(final, 1, k) = SubSeq(rec, 1, k)
        /\ \A i, j \in (k + 1)..Len(final) :
              i < j => scores[final[i]] >= scores[final[j]]
        /\ \A i \in (k + 1)..Len(final) :
              \A o \in DOMAIN scores \ Range(final) : scores[final[i]] >= scores[o]

C22_RenderedEntries ==
    rv_pc = "rendered" =>
        /\ IsRendering(rv_final, rv_recommended, rv_scores)
        /\ rv_scores = ScenarioScores => SubSeq(rv_final, 1, 2) = <<1, 3>>

\* eleven entries, one recommended: it comes first, nine of the others follow
C22_Witness ==
    /\ rv_pc = "rendered"
    /\ Len(rv_scores) = 11
    /\ rv_recommended = <<11>>
    /\ rv_final = <<11, 1, 2, 3, 4, 5, 6, 7, 8, 9>>

\* the scenario [0.6, 0.2, 0.45]: the 0.6 and the 0.45 entry, then the padding
C22_ScenarioReached ==
    /\ rv_pc = "rendered"
    /\ rv_scores = ScenarioScores
    /\ rv_final = <<1, 3, 2>>

(***************************************************************************)
(* The tool messages of the search-like calls whose tool returned.         *)
(***************************************************************************)
\* the log entries of returned calls of search-like tools
SearchReturned ==
    {i \in DOMAIN call_log :
        call_log[i].tool = "returned" /\ call_log[i].name \in SearchNamed}

C24_PersistFailureNotFatal ==
    persist_log \in PersistFailures =>
        /\ StreamOver
        /\ events[Len(events)] =
              CompleteEvent(full_response, References(full_response, pdf_chunks))
        /\ Count("message_complete") = 1
        /\ Count("error") = 0

\* an answer of two payloads was streamed, the session has no record
C24_Witness ==
    /\ persist_log = "no_record"
    /\ Len(full_response) = 2
    /\ events[Len(events)].type = "message_complete"
    /\ events[Len(events)].data = full_response

(***************************************************************************)
(* C25 as stated: when the persistence of the assistant message raised,    *)
(* the stream is ended by a single error event.                            *)
(***************************************************************************)
C25_Original ==
    persist_log = "raised" =>
        /\ Count("error") = 1
        /\ events[Len(events)].type = "error"

(***************************************************************************)
(* C25 as amended: when the persistence of the assistant message raised,   *)
(* the failure does not reach the loop boundary: nothing is written, no    *)
(* error event is emitted and the only terminal event of the stream is     *)
(* message_complete; every error event of a stream comes from a model      *)
(* invocation or from building the model.                                  *)
(***************************************************************************)
C25_PersistRaiseSwallowed ==
    /\ persist_log = "raised" =>
          /\ store = <<>>
          /\ \A i \in Terminals : events[i].type = "message_complete"
          /\ Cardinality(Terminals) = 1
    /\ ErrorOnlyFromModel

\* append_message raised after a streamed answer
C25_Witness ==
    /\ persist_log = "raised"
    /\ StreamOver
    /\ Count("content_delta") >= 1
    /\ Count("message_complete") = 1

(***************************************************************************)
(* C26: the assistant message is written at most once per request, only by *)
(* the step that yields message_complete after the unit stream ended       *)
(* without failure, with the full_content of that message_complete; a      *)
(* stream that ended with error or whose consumer stopped earlier has      *)
(* written nothing, and after the consumer stopped there is no model       *)
(* invocation, no tool dispatch, no event and no write any more.           *)
(***************************************************************************)
WrittenOnlyWithComplete ==
    /\ Len(store) <= 1
    /\ store # <<>> =>
          /\ StreamOver
          /\ ~model_failed
          /\ Count("error") = 0
          /\ events[Len(events)].type = "message_complete"
          /\ store = <<events[Len(events)].data>>
    /\ Count("error") >= 1 => store = <<>>
    /\ pc = "closed" => store = <<>>

WriteStep ==
    /\ store' # store =>
          /\ pc = "finish" /\ pc' = "done"
          /\ Len(events') = Len(events) + 1
          /\ events'[Len(events')].type = "message_complete"
    /\ pc = "closed" =>
          UNCHANGED <<store, events, messages, responses, stream_calls, dispatched,
                      call_log>>

C26_WrittenOnceAtCompletion == [](WrittenOnlyWithComplete) /\ [][WriteStep]_vars

\* the consumer stopped in the middle of the answer of a request with a
\* session: nothing was written
C26_Witness ==
    /\ pc = "closed"
    /\ session_id # NoSession
    /\ Count("tool_results") >= 1
    /\ Count("content_delta") >= 2
    /\ store = <<>>

(***************************************************************************)
(* C29: session_init is emitted at most once per stream, only when a       *)
(* session id was supplied, carrying that id, and when emitted it is the   *)
(* first event of the stream.                                              *)
(***************************************************************************)
C29_SessionInitFirstOnce ==
    /\ Count("session_init") <= 1
    /\ \A i \in Positions("session_init") :
          /\ i = 1
          /\ session_id # NoSession
          /\ events[i].data = <<session_id>>

\* a request with a session whose stream went through a tool round to the end
C29_Witness ==
    /\ StreamOver
    /\ events[1].type = "session_init"
    /\ Count("session_init") = 1
    /\ Count("tool_calls") >= 1
    /\ Count("message_complete") = 1

(***************************************************************************)
(* C30 as stated: every event of the stream, of every type, carries a      *)
(* timestamp field.                                                        *)
(***************************************************************************)
C30_Original == \A i \in DOMAIN events : events[i].timestamp

\* C27 (as stated): with create_conversation, append_message,
\* get_conversation and delete_conversation executed one at a time,
\* get_conversation returns exactly the messages whose append_message
\* returned True since creation, in call order.
C27_Original ==
    (~cs_overlap /\ cs_got.sid # "" /\ cs_got.rec.exists)
        => cs_got.rec.messages = cs_got.acked

\* an append_message call writes its record and returns True
AppendReturnsTrue(w) ==
    /\ cs_writers[w].pc = "read"
    /\ cs_writers'[w].pc = "idle"
    /\ cs_acked' # cs_acked

\* C28: an append_message call that returns True stores exactly the record
\* it read plus its own message, whatever another writer stored since the
\* read, so of two overlapping calls on one session both return True and
\* the earlier writer's message is absent afterwards; the records of the
\* other session ids are left as they are.
C28_LastWriteWins ==
    [][\A w \in Writers :
          AppendReturnsTrue(w) =>
              LET me == cs_writers[w]
              IN  /\ cs_files'[me.sid] = Appended(me.obj, me.msg)
                  /\ cs_acked'[me.sid] = Append(cs_acked[me.sid], me.msg)
                  /\ \A s \in SessionKeys \ {me.sid} : cs_files'[s] = cs_files[s]]_vars

\* two calls on one session both read the empty record, both returned True,
\* and the record holds the later writer's message only
C28_Witness ==
    \E s \in SessionKeys, r1 \in Roles, r2 \in Roles :
        /\ cs_thread[s].pc = "none"
        /\ cs_acked[s] = <<StoredMessage(r1, 1), StoredMessage(r2, 2)>>
        /\ cs_files[s].exists
        /\ cs_files[s].messages = <<StoredMessage(r2, 2)>>

(***************************************************************************)
(* The entries of the tool_results events and the tool messages of the     *)
(* message list.                                                           *)
(***************************************************************************)
\* the entries of these events, in order
RECURSIVE EntriesOf(_)
EntriesOf(evs) ==
    IF evs = <<>> THEN <<>> ELSE Head(evs).data \o EntriesOf(Tail(evs))
\* the entries of the tool_results events of the stream, in order
ResultEntries ==
    EntriesOf(SelectSeq(events, LAMBDA e : e.type = "tool_results"))
\* the tool messages of the message list, in order
StoredToolMessages == SelectSeq(messages, LAMBDA m : m.role = "tool")
\* the content with at most EventContentLimit characters as it is, a longer
\* one as its first EventContentLimit characters and an ellipsis
CutForEvent(content) ==
    IF content.len <= EventContentLimit THEN content
    ELSE [content EXCEPT !.len = EventContentLimit + EllipsisLen, !.cut = TRUE]
\* the lengths around the limit
LengthsAroundLimit == (EventContentLimit - 1) .. (EventContentLimit + EllipsisLen + 1)

(***************************************************************************)
(* C31: in the tool_results events the entries are, in order, the tool     *)
(* messages appended to the message list; an entry's content is the        *)
(* message content unchanged when it has at most 200 characters and its    *)
(* first 200 characters followed by an ellipsis otherwise, and the tool    *)
(* message in the message list keeps the full content.                     *)
(***************************************************************************)
C31_EventContentCut ==
    LET entries == ResultEntries
        tms == StoredToolMessages
    IN  /\ Len(entries) = Len(tms)
        /\ \A k \in DOMAIN tms :
              /\ entries[k].tool = tms[k].name
              /\ entries[k].content = CutForEvent(tms[k].content)
              /\ ~tms[k].content.cut
        /\ pc = "start" =>
              \A n \in LengthsAroundLimit :
                  EventContent(Text("raw_search", <<>>, n))
                      = CutForEvent(Text("raw_search", <<>>, n))

\* a round with a short and a long tool message: the event has the short one
\* as it is and the long one cut, the message list has both in full
C31_Witness ==
    LET entries == ResultEntries
        tms == StoredToolMessages
    IN  /\ Len(tms) = 2 /\ Len(entries) = 2
        /\ tms[1].content.len <= EventContentLimit
        /\ entries[1].content = tms[1].content
        /\ tms[2].content.len > EventContentLimit
        /\ entries[2].content.cut
        /\ entries[2].content.len = EventContentLimit + EllipsisLen
        /\ ~tms[2].content.cut

(***************************************************************************)
(* The entry text and the reference date of a scored entry.                *)
(***************************************************************************)
\* text = (title or '') + ' ' + (snippet or '')
EntryText == sc_title \o <<" ">> \o sc_snippet
\* the reference date appears in the entry text in one of its two forms
ExactDateAppears ==
    /\ sc_current_date # <<>>
    /\ \/ Occurs(DashDate(sc_current_date[1]), EntryText)
       \/ Occurs(CjkDate(sc_current_date[1]), EntryText)
\* the years the entry text mentions
YearsMentioned == Range(YearsFound(EntryText))
\* the year of the reference date, if there is one
ReferenceYear == IF sc_current_date = <<>> THEN NoYear ELSE sc_current_date[1]

(***************************************************************************)
(* C32 (as stated): the recency score is 1.0 whenever the exact reference  *)
(* date appears verbatim in the title or snippet in either form,           *)
(* YYYY-MM-DD or YYYY年MM月DD日, whichever form the caller passed.         *)
(***************************************************************************)
C32_Original ==
    (sc_pc = "done" /\ ExactDateAppears) => sc_score = 1000

(***************************************************************************)
(* C33 (as stated): when neither the exact reference date nor a            *)
(* relative-recency marker appears in the entry text, the recency score is *)
(* 0.6 if the text mentions a year equal to the reference date's year,     *)
(* wherever it stands among the years mentioned, 0.2 if it mentions only   *)
(* different years, and 0.3 if it mentions none.                           *)
(***************************************************************************)
C33_Original ==
    (sc_pc = "done" /\ ~ExactDateAppears /\ ~HasMarker(EntryText)) =>
        sc_score = (IF ReferenceYear \in YearsMentioned THEN 600
                    ELSE IF YearsMentioned # {} THEN 200
                    ELSE 300)

(***************************************************************************)
(* C34 (as stated): in any sequence of web_search calls within one         *)
(* process, each call returns at most that call's own max_results entries, *)
(* whatever max_results the earlier calls passed.                          *)
(***************************************************************************)
C34_Original ==
    \A i \in DOMAIN ws_log :
        ws_log[i].tool = "web_search" => ws_log[i].entries <= ws_log[i].max_results

(***************************************************************************)
(* The final streaming call and what precedes it.                          *)
(***************************************************************************)
\* the events of the tool rounds, and those of the final streaming call
RoundTypes == {"tool_calls", "tool_results"}
StreamTypes ==
    {"thought_process_start", "thought_process_content", "thought_process_end",
     "answer_start", "content_delta"}
\* the final streaming call has started
StreamStarted == stream_calls > 0
\* every event of a tool round precedes every event of the streaming call
RoundsBeforeStream ==
    \A i \in DOMAIN events, j \in DOMAIN events :
        (events[i].type \in RoundTypes /\ events[j].type \in StreamTypes) => i < j
\* a step that dispatches no tool and adds no round
NoRoundStep ==
    /\ dispatched' = dispatched
    /\ iteration' = iteration
    /\ responses' = responses
    /\ messages' = messages
    /\ Count("tool_calls")' = Count("tool_calls")
    /\ Count("tool_results")' = Count("tool_results")

(***************************************************************************)
(* C35: once the final streaming call has started, no tool is dispatched   *)
(* and no round is added, and every tool_calls and tool_results event      *)
(* precedes every thought_process_*, answer_start and content_delta event, *)
(* also when the ceiling was reached and the tool-bound model requests     *)
(* tools in its streamed output.                                           *)
(***************************************************************************)
C35_NoRoundAfterStreamStart ==
    [](RoundsBeforeStream) /\ [][StreamStarted => NoRoundStep]_vars

\* the ceiling was reached by tool rounds, the streamed output requested
\* tools and carried an answer, and the stream completed
C35_Witness ==
    /\ pc = "done"
    /\ tools_bound
    /\ max_iterations > 0
    /\ iteration = max_iterations
    /\ Count("tool_calls") = max_iterations
    /\ streamed_requests > 0
    /\ Count("content_delta") > 0
    /\ events[Len(events)].type = "message_complete"
    /\ dispatched > 0

(***************************************************************************)
(* The model invocations of a request that completed.                      *)
(***************************************************************************)
\* the request completed without failure
Completed ==
    /\ pc = "done"
    /\ ~model_failed
    /\ events # <<>>
    /\ events[Len(events)].type = "message_complete"
\* the assistant messages of the message list that carry no tool calls
ToolFreeMessages ==
    SelectSeq(messages, LAMBDA m : m.role = "assistant" /\ m.tool_calls = <<>>)
\* the completed request's invocations: Min(k + 1, N) model.ainvoke calls for
\* k tool rounds, all but a last tool-free one asking for tools, one model.astream
InvocationsOfCompleted ==
    LET k == Count("tool_calls")
    IN  /\ k = LeadingToolRounds(responses)
        /\ Len(responses) = Min(k + 1, max_iterations)
        /\ \A i \in DOMAIN responses :
              responses[i] = (IF i <= k THEN "tools" ELSE "tool_free")
        /\ stream_calls = 1
        /\ ModelInvocations <= max_iterations + 1
        /\ max_iterations = 0 => ModelInvocations = 1
\* what the stream carries was delivered by model.astream: the payloads of
\* the content_delta events are payloads of its units
PayloadsAreStreamed ==
    \A i \in DOMAIN events :
        events[i].type \in {"content_delta", "thought_process_content"} =>
            /\ StreamStarted
            /\ \A n \in Range(events[i].data) : n \in 1..chunk_count
\* a model.ainvoke call returns a response without tool calls
ToolFreeStep ==
    /\ Len(responses') = Len(responses) + 1
    /\ responses'[Len(responses')] = "tool_free"
\* the streaming call is made once, after the last model.ainvoke call
StreamCallLast ==
    /\ stream_calls' \in {stream_calls, stream_calls + 1}
    /\ StreamStarted => (stream_calls' = stream_calls /\ responses' = responses)

(***************************************************************************)
(* C36: a request that completes without failure after k tool rounds made  *)
(* exactly min(k + 1, N) non-streaming model invocations followed by       *)
(* exactly one streaming invocation (at most N + 1 invocations, exactly    *)
(* one when N = 0); the tool-free non-streaming response that ends the     *)
(* loop is discarded: it is never appended to the message list and nothing *)
(* of it is in any event.                                                  *)
(***************************************************************************)
C36_InvocationsAndDiscard ==
    /\ []((Completed => InvocationsOfCompleted)
          /\ ToolFreeMessages = <<>>
          /\ PayloadsAreStreamed)
    /\ [][StreamCallLast
          /\ (ToolFreeStep => (messages' = messages /\ events' = events))]_vars

\* one tool round, then a tool-free response that is discarded, then the
\* streamed answer: two model.ainvoke calls and one model.astream call
C36_Witness ==
    /\ Completed
    /\ max_iterations = MaxIterations
    /\ responses = <<"tools", "tool_free">>
    /\ stream_calls = 1
    /\ Count("content_delta") > 0
    /\ Len(Groups) = 1

\* the ceiling is 0: no model.ainvoke call, one model.astream call
C36_NoRoundsAllowed ==
    /\ Completed
    /\ max_iterations = 0
    /\ responses = <<>>
    /\ stream_calls = 1

(***************************************************************************)
(* C37: in every stream that ends with message_complete, full_content is   *)
(* the concatenation, in emission order, of the content of the             *)
(* content_delta events of the stream (empty when there is none), and no   *)
(* reasoning payload is part of it: it holds the answer payloads of the    *)
(* units that were not taken as reasoning, and nothing else.               *)
(***************************************************************************)
C37_FullContentIsDeltas ==
    \A i \in DOMAIN events :
        events[i].type = "message_complete" =>
            /\ events[i].data = Payloads("content_delta")
            /\ Count("content_delta") = 0 => events[i].data = <<>>
            /\ \A n \in Range(events[i].data) :
                  unit_log[n].answer /\ ~TakesReasoningBranch(unit_log[n])
            /\ Range(events[i].data) \cap Range(Payloads("thought_process_content")) = {}

\* the reasoner delivered reasoning, then two answer units: full_content is
\* the two answers
C37_Witness ==
    /\ pc = "done"
    /\ is_reasoner_model
    /\ Payloads("thought_process_content") = <<1>>
    /\ Payloads("content_delta") = <<2, 3>>
    /\ events[Len(events)].type = "message_complete"
    /\ events[Len(events)].data = <<2, 3>>

\* nothing but reasoning was delivered: full_content is empty
C37_EmptyAnswer ==
    /\ pc = "done"
    /\ Payloads("thought_process_content") # <<>>
    /\ events[Len(events)].type = "message_complete"
    /\ events[Len(events)].data = <<>>

(***************************************************************************)
(* C38 (as stated): the title thread changes only the title of the stored  *)
(* conversation: under every interleaving of the title thread with         *)
(* append_message calls on the session (the calls themselves one at a      *)
(* time), every message whose append_message returned True is still        *)
(* present, in order, after the title has been written.                    *)
(***************************************************************************)
C38_Original ==
    \A s \in SessionKeys :
        (/\ ~cs_overlap
         /\ cs_thread[s].pc = "done"
         /\ cs_files[s].exists
         /\ cs_files[s].title = "generated")
            => SelectSeq(cs_files[s].messages,
                         LAMBDA m : m \in Range(cs_acked[s])) = cs_acked[s]

(***************************************************************************)
(* Calls on a session id the store has no record of.                       *)
(***************************************************************************)
\* the step is a call of the store that began and returned in it
CallStep ==
    /\ cs_writers' = cs_writers
    /\ cs_returned' # NothingReturned
    /\ cs_returned' # cs_returned \/ cs_next' # cs_next
\* a call on a session id without record returned False and left the store
\* as it was
MissingRecordCall ==
    \A s \in SessionKeys :
        (/\ CallStep
         /\ ~cs_files[s].exists
         /\ cs_returned'.sid = s
         /\ cs_returned'.call \in {"append_message", "delete_conversation"})
            => /\ cs_returned'.value = FALSE
               /\ cs_files' = cs_files
               /\ cs_created' = cs_created
               /\ cs_acked' = cs_acked
\* the generator's append_message found no record of the session id: the
\* stream announced the id, completed, and nothing was persisted for it
StreamOfMissingRecord ==
    persist_log = "no_record" =>
        /\ session_id # NoSession
        /\ events[1] = Event("session_init", <<session_id>>, FALSE)
        /\ pc = "done"
        /\ events[Len(events)].type = "message_complete"
        /\ Count("error") = 0
        /\ store = <<>>
        /\ ~cs_files[session_id].exists

(***************************************************************************)
(* C39: append_message on a session id that has no record returns False,   *)
(* creates no record and leaves the store unchanged, and                   *)
(* delete_conversation on such an id returns False; a chat stream started  *)
(* with such a client-supplied session id still emits session_init with    *)
(* that id and completes with message_complete while nothing is persisted  *)
(* for it.                                                                 *)
(***************************************************************************)
C39_MissingRecord ==
    [](StreamOfMissingRecord) /\ [][MissingRecordCall]_vars

\* chat_stream's append_message of the user message returned False, the
\* stream completed without the assistant message being saved, and a
\* delete_conversation on the id returned False
C39_Witness ==
    /\ session_id = "s1"
    /\ persist_log = "no_record"
    /\ pc = "done"
    /\ events[1].type = "session_init"
    /\ Count("content_delta") > 0
    /\ events[Len(events)].type = "message_complete"
    /\ cs_next > 0
    /\ cs_returned = CallReturned("delete_conversation", "s1", FALSE)
    /\ ~cs_files["s1"].exists

====
